---- MODULE Spec2Model ----
(***************************************************************************)
(* A model of the nilAI gateway: the multi-bucket rate limiter and the     *)
(* concurrency gauge of nilai_api/rate_limiting.py, the usage-limit        *)
(* extraction of nilai_api/auth/nuc_helpers/usage.py, and the request      *)
(* lifecycle of nilai_api/routers/private.py as far as it touches them.    *)
(*                                                                         *)
(* Time is the store's clock in milliseconds.  A key written with PX w at  *)
(* time t is readable at every instant in [t, t+w) and gone from t+w on;   *)
(* PTTL of a readable key is -1 without expiry and t+w-now (>= 1) with.    *)
(* Every store command (EVALSHA, INCR, DECR) is one atomic step.           *)
(***************************************************************************)
EXTENDS Integers, Sequences, FiniteSets, TLC

(* ------------------------------ bounds -------------------------------- *)
\* proofs in a token chain under usage-limit extraction
MaxChain == 3
\* request tasks that can be in progress at the same time
NumReqs == 2
\* requests served in one behaviour
MaxArrivals == 3
\* clock advances in one behaviour
MaxAdvances == 2

(* ------------------------- program constants -------------------------- *)
MINUTE_MS == 60 * 1000
HOUR_MS == 60 * MINUTE_MS
DAY_MS == 24 * HOUR_MS
\* window of the global web-search burst bucket
RPS_WINDOW_MS == 1000
\* topics_to_search = [...][:3]
TopicCap == 3

(* ------------------------------ optionals ----------------------------- *)
\* Python's None / a present value, kept apart from the integers
None == <<>>
Some(v) == <<v>>
Val(o) == o[1]

(* --------------------------- the shared store -------------------------- *)
\* exp field of a key that has no expiry
NoExpiry == -1

\* a key is readable while it exists and its expiry has not been reached
Live(store, key, t) ==
    /\ key \in DOMAIN store
    /\ \/ store[key].exp = NoExpiry
       \/ t < store[key].exp

\* redis.call('get', key) or "0", as a number
Get(store, key, t) == IF Live(store, key, t) THEN store[key].val ELSE 0

\* redis.call("PTTL", key)
PTTL(store, key, t) ==
    IF ~Live(store, key, t) THEN -2
    ELSE IF store[key].exp = NoExpiry THEN -1
    ELSE store[key].exp - t

\* redis.call("SET", key, v [, "px", px]); exp is the absolute expiry
Put(store, key, v, exp) ==
    [k \in (DOMAIN store) \cup {key} |->
        IF k = key THEN [val |-> v, exp |-> exp] ELSE store[k]]

\* an increment written back with a plain SET, which drops the expiry
Incr_DropsExpiry(store, key) ==
    [store EXCEPT ![key] = [val |-> @.val + 1, exp |-> NoExpiry]]

\* redis.call("INCR", key) on a readable key: the expiry is kept
Incr(store, key) == [store EXCEPT ![key].val = @ + 1]

\* expired keys are dropped by the store
Purge(store, t) == [k \in {j \in DOMAIN store : Live(store, j, t)} |-> store[k]]

(* --------------------------- service discovery ------------------------- *)
\* the prefix register_model, get_model and unregister_model default to
DefaultPrefix == "/models"
\* prefixes an announcer can be configured with (LMSTUDIO_DISCOVERY_PREFIX)
Prefixes == {DefaultPrefix, "/lmstudio"}
\* the model the announcer serves (model_endpoint.metadata.id)
ModelId == "m1"
\* model ids that are looked up: the announced one, one nobody announces,
\* and one spelled like the key of the announced one
LookupIds == {ModelId, "m2", "/models/m1"}
\* lease_ttl of the announcer, seconds
LeaseTtls == {2, 3}

\* f"{prefix}/{model_id}"
Key(prefix, model_id) == prefix \o "/" \o model_id

\* model_endpoint.model_dump_json() and ModelEndpoint.model_validate_json
Endpoint(model_id) == [url |-> "http://host:8000", id |-> model_id]
model_dump_json(endpoint) == <<"json", endpoint.url, endpoint.id>>
model_validate_json(value) == [url |-> value[2], id |-> value[3]]

\* client.get(key): the value, or nothing once the key has expired
Fetch(store, key, t) == IF Live(store, key, t) THEN Some(store[key].val) ELSE None

\* client.setex(key, ttl, value)
setex(store, key, ttl, value, t) == Put(store, key, value, t + ttl)

\* client.delete(key)
delete(store, key) == [k \in (DOMAIN store) \ {key} |-> store[k]]

\* ModelServiceDiscovery.get_model without the second read
get_model_PrefixOnly(store, model_id, prefix, t) ==
    LET value == Fetch(store, Key(prefix, model_id), t) IN
    IF value # None THEN Some(model_validate_json(Val(value))) ELSE None

\* ModelServiceDiscovery.get_model: the key under the prefix, then the bare
\* model_id as a key
get_model(store, model_id, prefix, t) ==
    LET value == Fetch(store, Key(prefix, model_id), t)
        value2 == IF value = None THEN Fetch(store, model_id, t) ELSE value
    IN  IF value2 # None THEN Some(model_validate_json(Val(value2))) ELSE None

\* ModelServiceDiscovery.discover_models: the endpoints of the readable keys
\* that match f"{prefix}/*", by model id
discover_models(store, prefix, t) ==
    { model_validate_json(store[k].val).id :
        k \in { j \in DOMAIN store :
                  Live(store, j, t) /\ \E id \in LookupIds : j = Key(prefix, id) } }

\* what AppState defines: its attributes, properties and methods
AppStateAttributes ==
    {"private_key", "public_key", "b64_public_key", "sem", "discovery_service",
     "_discovery_initialized", "_uptime", "_ensure_discovery_initialized", "uptime",
     "models", "get_model"}

\* the answer of GET /readyz
NotReady(reason) == [status |-> 503, body |-> "not_ready", reason |-> reason]
Ready == [status |-> 200, body |-> "ready", reason |-> ""]

\* readyz: state.get_models() is called inside "try ... except Exception";
\* AppState has no get_models, so the call raises AttributeError; the 503 for
\* an empty registry is raised inside the same try
readyz(store, t, state_accessible) ==
    IF "get_models" \notin AppStateAttributes THEN NotReady("model check failed")
    ELSE IF discover_models(store, DefaultPrefix, t) = {}
    THEN NotReady("model check failed")
    ELSE IF ~state_accessible THEN NotReady("state check failed")
    ELSE Ready

\* stop_after_attempt(3) of the retry around _refresh_ttl
RefreshAttempts == 3
\* times the store becomes unreachable
MaxOutages == 2

\* the keep_alive task after register_model: ModelServiceDiscovery.__init__
\* sets is_healthy = True and _shutdown = False
KeepAlive ==
    [pc |-> "attempt", attempt |-> 1, is_healthy |-> TRUE, shutdown |-> FALSE,
     store_up |-> TRUE, lease |-> TRUE, outages |-> 0, errors |-> 0,
     exhausted |-> FALSE, absorbed |-> FALSE, lapsed |-> FALSE]

\* a keep_alive whose handler leaves the loop
OnRefreshFailure_Exit(k) ==
    [k EXCEPT !.is_healthy = FALSE, !.exhausted = TRUE, !.pc = "stopped"]

\* keep_alive lines 205-212: is_healthy = False, initialize() (which returns
\* at once, _client being set), and the while loop goes on
OnRefreshFailure(k) ==
    [k EXCEPT !.is_healthy = FALSE, !.exhausted = TRUE, !.pc = "attempt",
              !.attempt = 1]

\* a loop that sleeps the whole lease between two refreshes
keep_alive_sleep_WholeLease(lease_ttl) == lease_ttl

\* keep_alive: asyncio.sleep(self.lease_ttl // 2)
keep_alive_sleep(lease_ttl) == lease_ttl \div 2

(* ---------------------- LUA_RATE_LIMIT_SCRIPT -------------------------- *)
\* the script with its comparison off by one ("current > limit")
LUA_RATE_LIMIT_SCRIPT_OffByOne(store, key, limit, expire_time, t) ==
    LET current == IF Live(store, key, t) THEN store[key].val ELSE 0 IN
    IF current > 0
    THEN IF current > limit
         THEN [ret |-> IF store[key].exp = NoExpiry THEN -1 ELSE store[key].exp - t,
               kv |-> store]
         ELSE [ret |-> 0, kv |-> [store EXCEPT ![key].val = @ + 1]]
    ELSE [ret |-> 0,
          kv |-> [k \in (DOMAIN store) \cup {key} |->
                    IF k = key
                    THEN [val |-> 1,
                          exp |-> IF expire_time > 0 THEN t + expire_time ELSE NoExpiry]
                    ELSE store[k]]]

\* the script, run atomically at store time t: the returned value and the
\* store it leaves
LUA_RATE_LIMIT_SCRIPT(store, key, limit, expire_time, t) ==
    LET current == Get(store, key, t) IN
    IF current > 0
    THEN IF current + 1 > limit
         THEN [ret |-> PTTL(store, key, t), kv |-> store]
         ELSE [ret |-> 0, kv |-> Incr(store, key)]
    ELSE IF expire_time > 0
         THEN [ret |-> 0, kv |-> Put(store, key, 1, t + expire_time)]
         ELSE [ret |-> 0, kv |-> Put(store, key, 1, NoExpiry)]

\* check_bucket: "if int(expire) > 0: raise HTTPException(429, Retry-After)"
TooManyRequests(expire) == expire > 0

(* ------------------- usage limits of a token chain -------------------- *)
\* meta["usage_limit"] of a proof: the key is absent, null, an integer or
\* a value of another type
Absent == [kind |-> "absent", v |-> 0]
Null == [kind |-> "null", v |-> 0]
IntVal(n) == [kind |-> "int", v |-> n]
StrVal == [kind |-> "str", v |-> 0]

\* token_envelope.proofs[::-1]
Reverse(s) == [i \in 1..Len(s) |-> s[Len(s) + 1 - i]]

is_reduction_of(base, reduced) == 0 < reduced /\ reduced <= base

\* the loop of TokenRateLimits.from_token over the proofs root-to-leaf;
\* usage_limits is the list collected so far, t the time of the call
RECURSIVE CollectLimits(_, _, _)
CollectLimits(proofs, usage_limits, t) ==
    IF proofs = <<>> THEN [err |-> "ok", limits |-> usage_limits]
    ELSE LET proof == Head(proofs)
             token_usage_limit == proof.usage_limit
         IN  IF token_usage_limit.kind \in {"absent", "null"}
             THEN CollectLimits(Tail(proofs), usage_limits, t)
             ELSE IF token_usage_limit.kind # "int"
             THEN [err |-> "INVALID_TYPE", limits |-> <<>>]
             ELSE IF /\ Len(usage_limits) > 0
                     /\ ~is_reduction_of(usage_limits[Len(usage_limits)].usage_limit,
                                         token_usage_limit.v)
             THEN [err |-> "INCONSISTENT", limits |-> <<>>]
             ELSE CollectLimits(Tail(proofs),
                      Append(usage_limits,
                             [signature |-> proof.signature,
                              expires_at |-> IF proof.expires_at # None
                                             THEN Val(proof.expires_at)
                                             ELSE t - DAY_MS,
                              usage_limit |-> token_usage_limit.v]),
                      t)

\* from_token walking the proofs in envelope order, without the [::-1]
from_token_LeafFirst(token, t) == CollectLimits(token.proofs, <<>>, t)

\* TokenRateLimits.from_token: limits = <<>> with err = "ok" is the result None
from_token(token, t) == CollectLimits(Reverse(token.proofs), <<>>, t)

\* get_token_rate_limit, with get_auth_info turning UsageLimitError and
\* AuthenticationError into 401
get_token_rate_limit(token, t) ==
    LET token_rate_limits == from_token(token, t) IN
    IF token_rate_limits.err # "ok"
    THEN [status |-> 401, detail |-> token_rate_limits.err, limits |-> <<>>]
    ELSE IF \E i \in 1..Len(token_rate_limits.limits) :
                token_rate_limits.limits[i].expires_at < t
    THEN [status |-> 401, detail |-> "Token has expired", limits |-> <<>>]
    ELSE [status |-> 200, detail |-> "", limits |-> token_rate_limits.limits]

\* TokenRateLimit.ms_remaining, evaluated at time t
ms_remaining(limit, t) == limit.expires_at - t

(* ------------------ document binding of a token chain ------------------ *)
\* DIDs that Did.parse accepts; any other string makes it raise
Dids == {"did:nil:1", "did:nil:2"}

\* the loop of PromptDocument.from_token over the proofs root-to-leaf: the
\* exception it raises ("none" when it returns) and the value returned
RECURSIVE FirstDocument(_)
FirstDocument(proofs) ==
    IF proofs = <<>> THEN [exc |-> "none", doc |-> None]
    ELSE LET proof == Head(proofs) IN
         IF proof.document_id # None /\ proof.document_owner_did # None
         THEN IF Val(proof.document_owner_did) \notin Dids
              THEN [exc |-> "Exception", doc |-> None]
              ELSE IF Val(proof.document_owner_did) # proof.issuer
              THEN [exc |-> "ValueError", doc |-> None]
              ELSE [exc |-> "none",
                    doc |-> Some([document_id |-> Val(proof.document_id),
                                  owner_did |-> Val(proof.document_owner_did)])]
         ELSE FirstDocument(Tail(proofs))

\* PromptDocument.from_token taking the binding nearest to the leaf
PromptDocument_from_token_LeafFirst(token) == FirstDocument(token.proofs)

\* PromptDocument.from_token
PromptDocument_from_token(token) == FirstDocument(Reverse(token.proofs))

(* ----------------------------- get_auth_info --------------------------- *)
\* what validate_nuc and the credit service do with the credential
NucOutcomes == {"valid", "not_nilai", "ValidationException", "ValueError"}
CreditOutcomes == {"ok", "404", "401", "500", "Exception"}

Raised(exc, detail) ==
    [exc |-> exc, detail |-> detail, limits |-> << >>, prompt_document |-> None]

\* nuc_strategy: validate_nuc, get_token_rate_limit, get_token_prompt_document
\* and validate_credential in this order; the first exception ends it
nuc_strategy(token, nuc, credit, t) ==
    LET token_rate_limits == get_token_rate_limit(token, t)
        prompt_document == PromptDocument_from_token(token)
    IN  IF nuc = "not_nilai" THEN Raised("AuthenticationError", "not a /nil/ai attenuation")
        ELSE IF nuc # "valid" THEN Raised(nuc, "validation")
        ELSE IF token_rate_limits.status # 200
        THEN Raised(IF token_rate_limits.detail = "Token has expired"
                    THEN "AuthenticationError" ELSE "UsageLimitError",
                    token_rate_limits.detail)
        ELSE IF prompt_document.exc # "none"
        THEN Raised(prompt_document.exc, "document owner")
        ELSE IF credit = "Exception" THEN Raised("Exception", "credit service")
        ELSE IF credit # "ok" THEN Raised("AuthenticationError", credit)
        ELSE [exc |-> "none", detail |-> "", limits |-> token_rate_limits.limits,
              prompt_document |-> prompt_document.doc]

\* the exception classes get_auth_info turns into AuthenticationError
Caught == {"AuthenticationError", "ValueError", "ValidationException",
           "UsageLimitError", "Exception"}

\* a get_auth_info without its last handler, "except Exception"
CaughtByName_Narrow(exc) == exc \in Caught \ {"Exception"}

\* the except clauses of get_auth_info: every Exception is caught
CaughtByName(exc) == exc \in Caught

\* get_auth_info: the AuthenticationInfo, or AuthenticationError (401 with
\* WWW-Authenticate: Bearer); an exception no clause catches would be a 500
get_auth_info(token, nuc, credit, t) ==
    LET auth_info == nuc_strategy(token, nuc, credit, t) IN
    IF auth_info.exc = "none"
    THEN [status |-> 200, detail |-> "", www_authenticate |-> "",
          limits |-> auth_info.limits, prompt_document |-> auth_info.prompt_document]
    ELSE IF CaughtByName(auth_info.exc)
    THEN [status |-> 401, detail |-> auth_info.detail, www_authenticate |-> "Bearer",
          limits |-> << >>, prompt_document |-> None]
    ELSE [status |-> 500, detail |-> auth_info.detail, www_authenticate |-> "",
          limits |-> << >>, prompt_document |-> None]

(* ------------------------------ the inputs ----------------------------- *)
Reqs == 1..NumReqs

\* the one principal the requests authenticate as (auth_info.user.user_id)
UserId == "alice"

\* models named by requests; only Registered ones resolve through state.get_model
Models == {"m1", "ghost"}
Registered == {"m1"}

\* a lookup that resolves every model name
Resolves_Any(model) == TRUE

\* state.get_model(model) returns an endpoint
Resolves(model) == model \in Registered

\* a proof of the envelope: signature, token.expires_at, token.issuer and the
\* keys of token.meta that are read
Proof(sig, ul, exp) ==
    [signature |-> sig, usage_limit |-> ul, expires_at |-> exp,
     issuer |-> "did:nil:1", document_id |-> None, document_owner_did |-> None]

\* a proof that binds a document (or carries only one of the two keys)
DocProof(sig, issuer, document_id, document_owner_did) ==
    [Proof(sig, Absent, None) EXCEPT !.issuer = issuer,
                                     !.document_id = document_id,
                                     !.document_owner_did = document_owner_did]

\* bearer tokens, proofs in envelope order (leaf first, root last); the
\* first one carries no usage limit at all
Tokens ==
    << [proofs |-> << >>],
       [proofs |-> << Proof("sigA", IntVal(1), Some(2)) >>],
       [proofs |-> << Proof("sigZ", IntVal(0), Some(2)) >>],
       [proofs |-> << Proof("sigB", IntVal(1), Some(3)),
                      Proof("sigR", IntVal(2), Some(3)) >>],
       [proofs |-> << DocProof("sigD", "did:nil:1", Some("doc"), Some("did:nil:2")) >>] >>

\* the bodies a request can carry (ChatRequest fields the pipeline reads)
Body(model, web_search, stream, token) ==
    [model |-> model, web_search |-> web_search, stream |-> stream, token |-> token,
     valid |-> TRUE]
\* a body ChatRequest(**body) refuses
InvalidBody(token) == [Body("m1", FALSE, FALSE, token) EXCEPT !.valid = FALSE]
Plain == Body("m1", FALSE, FALSE, 1)

\* effective rate limits of the user (RateLimits.get_effective_limits)
Unlimited ==
    [user_rate_limit_minute |-> None, user_rate_limit_hour |-> None,
     user_rate_limit_day |-> None, user_rate_limit |-> None,
     web_search_rate_limit |-> None, web_search_rate_limit_minute |-> None,
     web_search_rate_limit_hour |-> None, web_search_rate_limit_day |-> None]

\* values of CONFIG.rate_limiting.model_concurrent_rate_limit["default"]
ConcurrentLimits == {1, 2}

Scenario(rl, c, w) == [rate_limits |-> rl, concurrent_limit |-> c, workload |-> w]

\* Deployments and workloads of the rate limiter driven on its own (as the
\* unit tests drive RateLimit.__call__): the per-user windows and the
\* forever bucket, token chains with usage limits, web-search buckets
LimiterScenarios ==
    { Scenario([Unlimited EXCEPT !.user_rate_limit_minute = m,
                                 !.user_rate_limit_hour = h,
                                 !.user_rate_limit = f],
               2, {Plain}) :
        m \in {None, Some(1), Some(2)}, h \in {None, Some(2)}, f \in {None, Some(1)} }
    \cup
    { Scenario(Unlimited, 2, { Body("m1", FALSE, FALSE, t) : t \in 2..4 }) }
    \cup
    { Scenario([Unlimited EXCEPT !.user_rate_limit_day = Some(2),
                                 !.web_search_rate_limit = f,
                                 !.web_search_rate_limit_minute = m,
                                 !.web_search_rate_limit_day = Some(2)],
               c, {Plain, Body("m1", TRUE, FALSE, 1)}) :
        f \in {None, Some(1)}, m \in {None, Some(1)}, c \in ConcurrentLimits }

\* Deployments and workloads of the whole request pipeline: every shape of
\* request (unknown model, streaming, web search) without bucket limits
\* under both gauge limits, and plain, token-limited and unknown-model
\* requests under a per-minute limit
PipelineScenarios ==
    { Scenario(Unlimited, c,
               {Plain, Body("ghost", FALSE, FALSE, 1), Body("m1", FALSE, TRUE, 1),
                Body("m1", TRUE, FALSE, 1), Body("m1", TRUE, TRUE, 1)}) :
        c \in ConcurrentLimits }
    \cup
    { Scenario([Unlimited EXCEPT !.user_rate_limit_minute = Some(1)], 1,
               {Plain, Body("m1", FALSE, FALSE, 2), Body("ghost", FALSE, FALSE, 1),
                Body("m1", FALSE, FALSE, 5)}) }

\* Deployments whose limits are reached early or are not positive, with
\* bodies the extractors refuse and tokens with usage limits
QuotaScenarios ==
    { Scenario([Unlimited EXCEPT !.user_rate_limit_minute = Some(2),
                                 !.user_rate_limit_hour = Some(1)],
               1, {Plain, InvalidBody(1)}) }
    \cup
    { Scenario([Unlimited EXCEPT !.user_rate_limit_minute = m,
                                 !.user_rate_limit = f],
               1, {Plain, Body("m1", FALSE, FALSE, 2)}) :
        m \in {Some(0), Some(-1)}, f \in {None, Some(0)} }

\* CONFIG.web_search: rps, max_concurrent_requests, count
WebSearchSettings == [rps |-> 1, max_concurrent_requests |-> 20, count |-> 3]

(* ------------------------------ the state ------------------------------ *)
VARIABLES
    now,          \* the clock, ms
    advances,     \* clock advances so far
    arrivals,     \* requests accepted so far
    rate_limits,  \* the user's effective RateLimits
    concurrent_limit, \* model_concurrent_rate_limit["default"]
    workload,     \* the request bodies that arrive
    kv,           \* bucket keys: key |-> [val, exp]
    concurrent,   \* gauge counters: "concurrent:{key}" |-> integer
    req,          \* r |-> the request body
    limits,       \* r |-> auth_info.token_rate_limit.limits (<<>> is None)
    pc,           \* r |-> where the request task stands
    pos,          \* r |-> index of the next bucket check of its plan
    ms,           \* r |-> ms_remaining computed for the next token check
    gen,          \* r |-> state of the RateLimit.__call__ generator
    pending,      \* r |-> upstream completion calls in flight
    resp,         \* r |-> the response of the request
    hist,         \* history: key |-> grants since the key was created
    calls,        \* history: r |-> upstream calls issued
    decrs,        \* history: r |-> gauge decrements done for r
    seen,         \* history: r |-> other holders when r was rejected by the gauge
    chain,        \* a token under usage-limit extraction
    verdict,      \* the result of extracting from chain
    token_rate_limits, \* what TokenRateLimits.from_token returned for chain
    registry,     \* the discovery store: key |-> [val, exp], exp in seconds
    announcer,    \* the announcer task of one model (run_service, _announce_model)
    found,        \* the last get_model call and what it returned
    latest,       \* history: <<prefix, id>> |-> the latest register/unregister call
    call,         \* one chat_completion call: its locals, log_ctx, meter, response
    query_logs,   \* the rows committed to the query_logs table
    enrich,       \* the enrichment stages of one request (nilrag, web search)
    docs,         \* one bearer, its requests and the buckets they count in
    ready,        \* the last GET /readyz: what it found and what it answered
    keeper,       \* a keep_alive task, the store it talks to and the lease
    keygen,       \* the processes in generate_key_pair, the key file and its lock
    mw,           \* one request on its way through the middleware stack
    chat          \* a message list and the system contents it was given

pipeVars == <<now, advances, arrivals, rate_limits, concurrent_limit, workload, kv, concurrent, req, limits, pc, pos, ms, gen,
              pending, resp, hist, calls, decrs, seen>>
chainVars == <<chain, verdict, token_rate_limits>>
discVars == <<registry, announcer, found, latest>>
callVars == <<call, query_logs>>
restVars == <<keygen, mw, chat>>
sideVars == <<enrich, docs, ready, keeper, restVars>>
otherVars == <<chainVars, discVars, callVars, sideVars>>
vars == <<pipeVars, otherVars>>

(* --------------------- the bucket checks of a request ------------------ *)
Min(a, b) == IF a <= b THEN a ELSE b
Max(a, b) == IF a >= b THEN a ELSE b

\* allowed_rps of the global web-search burst bucket
allowed_rps ==
    Min(WebSearchSettings.rps,
        Max(1, WebSearchSettings.max_concurrent_requests \div WebSearchSettings.count))

\* one check_bucket call: tok > 0 names the token limit whose ms_remaining
\* is read when the call is made, tok = 0 a fixed window
Check(key, times, milliseconds, tok) ==
    [key |-> key, times |-> times, milliseconds |-> milliseconds, tok |-> tok]

UserChecks(rl) ==
    << Check(<<"minute", UserId>>, rl.user_rate_limit_minute, MINUTE_MS, 0),
       Check(<<"hour", UserId>>, rl.user_rate_limit_hour, HOUR_MS, 0),
       Check(<<"day", UserId>>, rl.user_rate_limit_day, DAY_MS, 0),
       Check(<<"user", UserId>>, rl.user_rate_limit, 0, 0) >>

TokenChecks(token_rate_limit) ==
    [i \in 1..Len(token_rate_limit) |->
        Check(<<"token", token_rate_limit[i].signature>>,
              Some(token_rate_limit[i].usage_limit), 0, i)]

WebSearchChecks(rl) ==
    << Check(<<"global", "web_search:rps">>, Some(allowed_rps), RPS_WINDOW_MS, 0),
       Check(<<"web_search", UserId>>, rl.web_search_rate_limit, 0, 0),
       Check(<<"web_search_minute", UserId>>, rl.web_search_rate_limit_minute, MINUTE_MS, 0),
       Check(<<"web_search_hour", UserId>>, rl.web_search_rate_limit_hour, HOUR_MS, 0),
       Check(<<"web_search_day", UserId>>, rl.web_search_rate_limit_day, DAY_MS, 0) >>

HasLimit(c) == c.times # None

\* a RateLimit.__call__ that checks the web-search buckets before the others
Plan_WebSearchFirst(q, token_rate_limit, rl) ==
    SelectSeq((IF q.web_search THEN WebSearchChecks(rl) ELSE << >>)
                  \o UserChecks(rl) \o TokenChecks(token_rate_limit),
              HasLimit)

\* the check_bucket calls of RateLimit.__call__ in order; a call whose
\* times is None returns at once without reaching the store
Plan(q, token_rate_limit, rl) ==
    SelectSeq(UserChecks(rl) \o TokenChecks(token_rate_limit)
                  \o (IF q.web_search THEN WebSearchChecks(rl) ELSE << >>),
              HasLimit)

\* a dependency that takes back the increments of the buckets a request
\* passed when the request is rejected
AfterRejection_RollBack(store, plan, passed) ==
    [k \in DOMAIN store |->
        IF \E i \in 1..Min(passed, Len(plan)) : plan[i].key = k
        THEN [store[k] EXCEPT !.val = @ - 1] ELSE store[k]]

\* RateLimit.__call__ when check_bucket, the web-search extractor or
\* check_concurrent_and_increment raises: the exception leaves the
\* dependency, no statement touches the buckets passed before
AfterRejection(store, plan, passed) == store

\* RateLimit.__call__ going on to the gauge after its first bucket check
StageAt_FirstOnly(plan, i) ==
    IF i > Min(1, Len(plan)) THEN "gauge"
    ELSE IF plan[i].tok > 0 THEN "token_args"
    ELSE "check"

\* where RateLimit.__call__ stands before its i-th store call
StageAt(plan, i) ==
    IF i > Len(plan) THEN "gauge"
    ELSE IF plan[i].tok > 0 THEN "token_args"
    ELSE "check"

\* the gauge key and limit of chat_completion_concurrent_rate_limit
GaugeKey(q) == <<"concurrent", q.model>>
GaugeKeys == { <<"concurrent", m>> : m \in Models }

\* concurrent_decrement that leaves the counter as it is
concurrent_decrement_Lost(gauge, key) == gauge

\* concurrent_decrement: redis.decr on the gauge key
concurrent_decrement(gauge, key) == [gauge EXCEPT ![key] = @ - 1]

\* check_concurrent_and_increment comparing with ">="
OverLimit_Inclusive(current, max_concurrent) == current >= max_concurrent

\* check_concurrent_and_increment: "if current > max_concurrent"
OverLimit(current, max_concurrent) == current > max_concurrent

\* upstream completion calls in flight for model m
InFlight(m) ==
    Cardinality({ c \in Reqs \X (1..TopicCap) :
                    req[c[1]].model = m /\ c[2] <= pending[c[1]] })

(* ------------------ chat_completion: values and steps ------------------ *)
\* token counts an upstream completion reports
TokenCounts == {1, 2}
\* the chunks a streamed completion delivers at most
MaxChunks == 2

\* CompletionUsage of an upstream completion
Usage(prompt_tokens, completion_tokens) ==
    [prompt_tokens |-> prompt_tokens, completion_tokens |-> completion_tokens,
     total_tokens |-> prompt_tokens + completion_tokens]
Usages == { Usage(p, c) : p \in TokenCounts, c \in TokenCounts }

\* the request as the handler reads it: model, stream, len(messages) and the
\* number of sources web search attaches (0 without web search)
CallRequest(model, stream, messages, sources) ==
    [model |-> model, stream |-> stream, messages |-> messages, sources |-> sources]
CallRequests ==
    { CallRequest(m, st, n, k) : m \in Models, st \in BOOLEAN, n \in {0, 1}, k \in {0, 1} }

\* the service key pair (state.private_key and its public key)
PrivateKey == "sk"
PublicKey == "pk"
PublicKeyOf(private_key) == IF private_key = PrivateKey THEN PublicKey ELSE "none"

\* sign_message: the serialized ECDSA signature of the message
sign_message(private_key, message) == <<"ecdsa", PublicKeyOf(private_key), message>>
\* verify_signature
verify_signature(public_key, message, signature) ==
    signature = <<"ecdsa", public_key, message>>

\* b64encode(signature).decode() and its inverse
b64encode(bytes) == <<"b64", bytes>>
b64decode(text) == IF Len(text) = 2 /\ text[1] = "b64" THEN text[2] ELSE << >>

\* SignedChatCompletion(**final_completion.model_dump(), signature="",
\* sources=sources): the fields the handler touches
NoBody == [usage |-> None, sources |-> 0, signature |-> ""]
SignedChatCompletion(usage, sources) ==
    [usage |-> usage, sources |-> sources, signature |-> ""]

\* model_response.model_dump_json()
SignedChatCompletion_dump_json(model_response) ==
    <<"json", model_response.usage, model_response.sources, model_response.signature>>

\* lines 455-464: the usage of the first response is added to the totals
\* handle_tool_workflow returned, if it returned any
Aggregate(model_response, response_usage, agg_prompt_tokens, agg_completion_tokens) ==
    IF agg_prompt_tokens # 0 \/ agg_completion_tokens # 0
    THEN LET total_prompt_tokens == Val(response_usage).prompt_tokens + agg_prompt_tokens
             total_completion_tokens ==
                 Val(response_usage).completion_tokens + agg_completion_tokens
         IN  [model_response EXCEPT !.usage =
                 Some(Usage(total_prompt_tokens, total_completion_tokens))]
    ELSE model_response

\* lines 492-494: the response is serialized, signed and given its signature
Sign(model_response) ==
    [model_response EXCEPT !.signature =
        b64encode(sign_message(PrivateKey,
                               SignedChatCompletion_dump_json(model_response)))]

\* a handler that signs the response before it aggregates the usage
Finalize_SignFirst(model_response, response_usage, agg_prompt_tokens, agg_completion_tokens) ==
    Aggregate(Sign(model_response), response_usage, agg_prompt_tokens,
              agg_completion_tokens)

\* lines 455-494: the usage is aggregated, then the response is signed
Finalize(model_response, response_usage, agg_prompt_tokens, agg_completion_tokens) ==
    Sign(Aggregate(model_response, response_usage, agg_prompt_tokens,
                   agg_completion_tokens))

\* QueryLogContext.__init__
QueryLogContext ==
    [user_id |-> None, model |-> None, prompt_tokens |-> 0, completion_tokens |-> 0,
     web_search_calls |-> 0, was_streamed |-> FALSE, error_code |-> 0]

\* QueryLogContext.set_usage and set_error
set_usage(log_ctx, prompt_tokens, completion_tokens, web_search_calls) ==
    [log_ctx EXCEPT !.prompt_tokens = prompt_tokens,
                    !.completion_tokens = completion_tokens,
                    !.web_search_calls = web_search_calls]
set_error(log_ctx, error_code) == [log_ctx EXCEPT !.error_code = error_code]

\* QueryLogContext.commit: nothing without user_id or model, else one row
commit(rows, log_ctx) ==
    IF log_ctx.user_id = None \/ log_ctx.model = None THEN rows
    ELSE Append(rows,
                [user_id |-> Val(log_ctx.user_id), model |-> Val(log_ctx.model),
                 prompt_tokens |-> log_ctx.prompt_tokens,
                 completion_tokens |-> log_ctx.completion_tokens,
                 total_tokens |-> log_ctx.prompt_tokens + log_ctx.completion_tokens,
                 web_search_calls |-> log_ctx.web_search_calls,
                 was_streamed |-> log_ctx.was_streamed,
                 error_code |-> log_ctx.error_code])

\* CONFIG.docs.token and a credential the credit service knows
DocsToken == "docs-token"
Bearers == {DocsToken, "api-key"}

\* LLMMeter: the metering context the handler is given
LLMMeter(token) ==
    IF token = DocsToken THEN "NoOpMeteringContext" ELSE "MeteringContext"

\* meter.lock_id: NoOpMeteringContext defines set_response only
HasLockId(meter) == meter = "MeteringContext"

\* the stages a call passes in the order of their statements: the
\* dependencies (get_auth_info, RateLimit), lines 254-262, the three
\* enrichment blocks (292-303, 305-311, 316-325) and the call at line 423
AdmissionStages == <<"authenticated", "rate_checked">>
PrologueStages ==
    <<"endpoint_resolved", "stored_prompt", "nilrag", "web_search", "dispatched">>

\* a handler that signs the response before it meters it
CompletionStages_SignFirst == <<"assembled", "signed", "metered", "logged", "completed">>

\* lines 439-499: SignedChatCompletion is built (439-464), meter.set_response
\* (467-475), log_ctx.set_usage and add_task(log_ctx.commit) (482-489), the
\* signature (492-494), return (499)
CompletionStages == <<"assembled", "metered", "logged", "signed", "completed">>

(* ------------- the tool workflow (handlers/tools/tool_router.py) -------- *)
\* tool calls one assistant message carries at most
MaxToolCalls == 2
\* the tool the router implements and one it does not
ToolNames == {"execute_python", "get_weather"}

\* ChatCompletionMessageToolCall: the id names the completion (1 the first,
\* 2 the follow-up) and the position of the call in its message
ToolCall(id, name) == [id |-> id, name |-> name]
ToolCallLists(n, round) ==
    { [i \in 1..n |-> ToolCall(<<round, i>>, names[i])] : names \in [1..n -> ToolNames] }

\* the content of an assistant message: empty, text that is not a JSON
\* object, or a JSON object whose function name is `name` ("" when the
\* object names none)
Content(kind, name) == [kind |-> kind, name |-> name]
Contents ==
    {Content("empty", ""), Content("text", "")}
        \cup { Content("json", n) : n \in ToolNames \cup {""} }

\* ChatCompletionMessage of completion `round`
ResponseMessages(round) ==
    { [tool_calls |-> tcs, content |-> c, round |-> round] :
        tcs \in UNION { ToolCallLists(n, round) : n \in 0..MaxToolCalls },
        c \in Contents }

\* what the e2b sandbox does with one execute_python call
SandboxOutcomes == {"result", "raises"}

\* MessageAdapter.new_tool_message
new_tool_message(name, content, tool_call_id) ==
    [role |-> "tool", name |-> name, content |-> content, tool_call_id |-> tool_call_id]
NotImplemented(func_name) == <<"Tool", func_name, "not implemented">>

\* route_and_execute_tool_call: execute_python runs the code in the sandbox
\* and its exception is not caught; any other name gets the error message
route_and_execute_tool_call(tool_call, outcome) ==
    IF tool_call.name = "execute_python"
    THEN IF outcome = "raises"
         THEN [raised |-> TRUE, ran |-> TRUE, msg |-> new_tool_message("", "", <<0, 0>>)]
         ELSE [raised |-> FALSE, ran |-> TRUE,
               msg |-> new_tool_message("execute_python", "result", tool_call.id)]
    ELSE [raised |-> FALSE, ran |-> FALSE,
          msg |-> new_tool_message(tool_call.name, NotImplemented(tool_call.name),
                                   tool_call.id)]

\* process_tool_calls: the calls one after the other, in their order
RECURSIVE ProcessFrom(_, _, _, _, _)
ProcessFrom(tool_calls, outcomes, i, msgs, executed) ==
    IF i > Len(tool_calls)
    THEN [raised |-> FALSE, msgs |-> msgs, executed |-> executed]
    ELSE LET r == route_and_execute_tool_call(tool_calls[i], outcomes[i])
             ran == IF r.ran THEN Append(executed, tool_calls[i].id) ELSE executed
         IN  IF r.raised
             THEN [raised |-> TRUE, msgs |-> msgs, executed |-> ran]
             ELSE ProcessFrom(tool_calls, outcomes, i + 1, Append(msgs, r.msg), ran)

\* a router that answers the first tool call only
process_tool_calls_FirstOnly(tool_calls, outcomes) ==
    ProcessFrom(SubSeq(tool_calls, 1, 1), outcomes, 1, << >>, << >>)

process_tool_calls(tool_calls, outcomes) ==
    ProcessFrom(tool_calls, outcomes, 1, << >>, << >>)

\* extract_tool_calls_from_response_message: the structured calls if there
\* are any, else one call parsed from a JSON content that names a function
extract_tool_calls_from_response_message(response_message) ==
    IF response_message.tool_calls # << >>
    THEN response_message.tool_calls
    ELSE IF response_message.content.kind # "json" \/ response_message.content.name = ""
    THEN << >>
    ELSE <<ToolCall(<<response_message.round, "uuid">>, response_message.content.name)>>

\* handle_tool_workflow up to its follow-up request (lines 161-184)
handle_tool_workflow(first_message, outcomes) ==
    LET tool_calls == extract_tool_calls_from_response_message(first_message)
        processed == process_tool_calls(tool_calls, outcomes)
    IN  IF tool_calls = << >>
        THEN [followup |-> None, raised |-> FALSE, tool_calls |-> tool_calls,
              tool_messages |-> << >>, executed |-> << >>]
        ELSE IF processed.raised
        THEN [followup |-> None, raised |-> TRUE, tool_calls |-> tool_calls,
              tool_messages |-> processed.msgs, executed |-> processed.executed]
        ELSE [followup |-> Some([tool_choice |-> "none",
                                 appended |-> <<[role |-> "assistant",
                                                 tool_calls |-> tool_calls]>>
                                              \o processed.msgs]),
              raised |-> FALSE, tool_calls |-> tool_calls,
              tool_messages |-> processed.msgs, executed |-> processed.executed]

\* the call before RateLimit admits it
NewCall(q) ==
    [req |-> q, bearer |-> "api-key", pc |-> "arrived", gen |-> "none", log_ctx |-> QueryLogContext,
     response_usage |-> None, second_usage |-> None, tool_round |-> FALSE,
     followups |-> 0, tool_calls |-> << >>, tool_messages |-> << >>,
     executed |-> << >>, followup |-> None, second_tool_calls |-> << >>,
     frames |-> << >>, completions |-> 0, streamed |-> << >>,
     model_response |-> NoBody, meter |-> None,
     background |-> "none", status |-> 0, outcome |-> "", rows_at_answer |-> 0,
     upstream |-> "none", chunks |-> 0, usage_seen |-> FALSE,
     prompt_token_usage |-> 0, completion_token_usage |-> 0, stages |-> << >>]

\* the handler is left with an HTTP status and no further step
Left(c, status, outcome, rows) ==
    [c EXCEPT !.pc = "returned", !.status = status, !.outcome = outcome,
              !.rows_at_answer = Len(rows)]

\* log_ctx with the model set if it was not (lines 514-515 and 531-532)
WithModel(c) ==
    IF c.log_ctx.model = None THEN [c.log_ctx EXCEPT !.model = Some(c.req.model)]
    ELSE c.log_ctx

\* except HTTPException (lines 500-521): >= 500 is logged before the raise
OnHTTPException(c, rows, status) ==
    IF status >= 500
    THEN LET log_ctx == set_error(WithModel(c), status)
             rows2 == commit(rows, log_ctx)
         IN  [call |-> Left([c EXCEPT !.log_ctx = log_ctx], status, "error", rows2),
              rows |-> rows2]
    ELSE [call |-> Left(c, status, "error", rows), rows |-> rows]

\* except Exception (lines 522-538): logged as 500, answered 500
OnException(c, rows) ==
    LET log_ctx == set_error(WithModel(c), 500)
        rows2 == commit(rows, log_ctx)
    IN  [call |-> Left([c EXCEPT !.log_ctx = log_ctx], 500, "error", rows2),
         rows |-> rows2]

\* lines 439-499 after handle_tool_workflow returned final_completion and the
\* aggregated counts
Complete(c, rows, final_usage, agg_prompt_tokens, agg_completion_tokens) ==
    IF final_usage = None
    THEN OnHTTPException(c, rows, 500)
    ELSE IF (agg_prompt_tokens # 0 \/ agg_completion_tokens # 0) /\ c.response_usage = None
    THEN OnException(c, rows)
    ELSE LET model_response ==
                 Finalize(SignedChatCompletion(final_usage, c.req.sources),
                          c.response_usage, agg_prompt_tokens, agg_completion_tokens)
             usage == Val(model_response.usage)
             answered ==
                 [c EXCEPT !.model_response = model_response,
                           !.meter = Some([prompt_tokens |-> usage.prompt_tokens,
                                           completion_tokens |-> usage.completion_tokens,
                                           web_searches |-> c.req.sources]),
                           !.log_ctx = set_usage(c.log_ctx, usage.prompt_tokens,
                                                 usage.completion_tokens, c.req.sources),
                           !.background = "added",
                           !.stages = @ \o CompletionStages]
         IN  [call |-> Left(answered, 200, "success", rows), rows |-> rows]

(* ------------ the middleware stack (app.py, middleware/security.py) ---- *)
\* Starlette's add_middleware puts the class in front of those added
\* before it: the class added last wraps all the others
add_middleware(user_middleware, cls) == <<cls>> \o user_middleware

\* app.py lines 104-118 in the order of the statements
AddedMiddlewares ==
    <<"CORSMiddleware", "SecurityHeadersMiddleware", "RequestMetricsMiddleware",
      "RequestTimeoutMiddleware", "RequestSizeLimitMiddleware",
      "PrometheusInstrumentatorMiddleware">>

RECURSIVE AddAll(_, _)
AddAll(user_middleware, classes) ==
    IF classes = << >> THEN user_middleware
    ELSE AddAll(add_middleware(user_middleware, Head(classes)), Tail(classes))

\* app.user_middleware, outermost first
user_middleware == AddAll(<< >>, AddedMiddlewares)

\* what a request brings: Content-Length (absent, within or over
\* MAX_REQUEST_SIZE) and whether it carries X-Request-ID
HttpRequest(content_length, x_request_id) ==
    [content_length |-> content_length, x_request_id |-> x_request_id]
HttpRequests ==
    { HttpRequest(cl, id) : cl \in {"absent", "within", "over"}, id \in BOOLEAN }
PlainHttpRequest == HttpRequest("absent", FALSE)

\* the statuses the routes and the exception handlers inside the stack answer
AppStatuses == {200, 401, 429, 500}

\* the headers SecurityHeadersMiddleware.dispatch sets (lines 86-107) and
\* those RequestMetricsMiddleware.dispatch sets (lines 131-132)
SecurityHeaders ==
    {"Strict-Transport-Security", "X-Content-Type-Options", "X-Frame-Options",
     "X-XSS-Protection", "Referrer-Policy", "Content-Security-Policy",
     "Permissions-Policy"}
MetricsHeaders == {"X-Request-ID", "X-Response-Time"}

\* the dispatch of a layer after call_next returned a response
AfterCallNext(cls, headers) ==
    IF cls = "SecurityHeadersMiddleware" THEN headers \cup SecurityHeaders
    ELSE IF cls = "RequestMetricsMiddleware" THEN headers \cup MetricsHeaders
    ELSE headers

\* a request before the outermost layer: pos is the layer it is in (0 outside
\* the stack), entered the layers it went into, crossed the layers its
\* response or exception came out through
NewPassage(q) ==
    [req |-> q, phase |-> "down", pos |-> 1, entered |-> << >>, crossed |-> << >>,
     status |-> 0, origin |-> "", headers |-> {}, timer |-> "off"]

(* ------------------- generate_key_pair (crypto.py) --------------------- *)
\* the processes that start together
NumProcs == 3
Procs == 1..NumProcs

\* the bytes of a key file: none, the key an earlier start wrote, or the
\* key PrivateKey() makes in process p
NoBytes == << >>
StoredKey == <<0>>
FreshKey(p) == <<p>>

\* private_key.key at the start: absent, present and empty, present with a key
KeyFile(exists, bytes) == [exists |-> exists, bytes |-> bytes]
AbsentFile == KeyFile(FALSE, NoBytes)
KeyFiles == {AbsentFile, KeyFile(TRUE, NoBytes), KeyFile(TRUE, StoredKey)}

\* a lock that every caller is granted at once
flock_granted_Shared(holders, p) == TRUE

\* fcntl.flock(lock_file, LOCK_EX) on an open file description of its own:
\* granted when no other description holds the lock
flock_granted(holders, p) == holders \subseteq {p}

\* the processes before line 24, the key file and the lock file
KeyGen(file) ==
    [pc |-> [p \in Procs |-> "start"], private_key |-> [p \in Procs |-> None],
     file |-> file, initial |-> file, lock_file |-> FALSE, holders |-> {},
     writes |-> 0]

(* ------------------------ the docs token bypass ------------------------- *)
\* requests one bearer sends
MaxDocsRequests == 3

\* CONFIG.rate_limiting: the defaults of a deployment
RateLimitingConfigs ==
    { [Unlimited EXCEPT !.user_rate_limit_minute = m, !.user_rate_limit = f,
                        !.web_search_rate_limit_day = d] :
        m \in {None, Some(1)}, f \in {None, Some(2)}, d \in {None, Some(1)} }

\* "a or b" on Optional[int]: None and 0 give b
Or(a, b) == IF a = None \/ a = Some(0) THEN b ELSE a

\* RateLimits.get_effective_limits: the stored limits with the configured
\* defaults; web_search_rate_limit falls back to user_rate_limit
get_effective_limits(self, config) ==
    [user_rate_limit_day |-> Or(self.user_rate_limit_day, config.user_rate_limit_day),
     user_rate_limit_hour |-> Or(self.user_rate_limit_hour, config.user_rate_limit_hour),
     user_rate_limit_minute |->
         Or(self.user_rate_limit_minute, config.user_rate_limit_minute),
     web_search_rate_limit_day |->
         Or(self.web_search_rate_limit_day, config.web_search_rate_limit_day),
     web_search_rate_limit_hour |->
         Or(self.web_search_rate_limit_hour, config.web_search_rate_limit_hour),
     web_search_rate_limit_minute |->
         Or(self.web_search_rate_limit_minute, config.web_search_rate_limit_minute),
     user_rate_limit |-> Or(self.user_rate_limit, config.user_rate_limit),
     web_search_rate_limit |-> Or(self.web_search_rate_limit, config.user_rate_limit)]

\* UserModel.rate_limits_obj: rate_limits None is RateLimits() with defaults
rate_limits_obj(stored, config) ==
    IF stored = None THEN get_effective_limits(Unlimited, config)
    ELSE get_effective_limits(Val(stored), config)

\* AuthenticationInfo of api_key_strategy and the calls made to the credit
\* service on the way
AuthenticationInfo(user_id, rl, credit_calls) ==
    [user_id |-> user_id, rate_limits |-> rl, credit_calls |-> credit_calls]

\* api_key_strategy: validate_credential asks the credit service, the user
\* has no row in users
api_key_strategy(api_key, config) ==
    AuthenticationInfo(api_key, rate_limits_obj(None, config), 1)

\* allow_token(CONFIG.docs.token): the wrapper around api_key_strategy
allow_token(allowed_token, token, config) ==
    IF token = allowed_token
    THEN AuthenticationInfo(allowed_token, rate_limits_obj(None, config), 0)
    ELSE api_key_strategy(token, config)

\* the bucket keys of RateLimit.__call__ carry user_limits.user_id
ForUser(plan, user_id) ==
    [i \in 1..Len(plan) |->
        [plan[i] EXCEPT !.key = <<@[1], IF @[2] = UserId THEN user_id ELSE @[2]>>]]

(* ------------------- enrichment: nilrag and web search ------------------ *)
\* the topics the planner may mark as needing a search
MaxTopics == 2

\* a text is the sequence of its tokens: words and whitespace characters
Whitespace == {" ", "\n"}
MaxText == 2
TextTokens == {"a", " "}
Texts(n) == UNION { [1..k -> TextTokens] : k \in 1..n }

\* str.strip
RECURSIVE lstrip(_)
lstrip(text) ==
    IF text # << >> /\ Head(text) \in Whitespace THEN lstrip(Tail(text)) ELSE text
RECURSIVE rstrip(_)
rstrip(text) ==
    IF text # << >> /\ text[Len(text)] \in Whitespace
    THEN rstrip(SubSeq(text, 1, Len(text) - 1)) ELSE text
strip(text) == rstrip(lstrip(text))

\* the content of a message: None, a str, or a list of content parts
NoContent == [kind |-> "none"]
Str(text) == [kind |-> "str", text |-> text]
List(parts) == [kind |-> "list", parts |-> parts]
TextPart(text) == [type |-> "text", text |-> text]
ImagePart == [type |-> "image_url", text |-> << >>]

\* "\n".join of the stripped text parts that are not blank
RECURSIVE JoinTextParts(_)
JoinTextParts(parts) ==
    IF parts = << >> THEN << >>
    ELSE LET rest == JoinTextParts(Tail(parts))
             t == IF Head(parts).type = "text" THEN strip(Head(parts).text) ELSE << >>
         IN  IF t = << >> THEN rest
             ELSE IF rest = << >> THEN t
             ELSE t \o <<"\n">> \o rest

\* _extract_text_from_content(content) or "": the stripped str, the joined
\* text parts, the empty text where the source has None
_extract_text_from_content(content) ==
    IF content.kind = "str" THEN strip(content.text)
    ELSE IF content.kind = "list" THEN JoinTextParts(content.parts)
    ELSE << >>

\* a message: its role and its content
Message(role, content) == [role |-> role, content |-> content]
UserQuery == Message("user", Str(<<"question">>))
Conversations == { <<UserQuery>>, <<Message("system", Str(<<"be brief">>)), UserQuery>> }

\* a method that puts a new system message first whatever the list holds
ensure_system_content_AlwaysInsert(messages, system_content) ==
    <<Message("system", Str(system_content))>> \o messages

\* ChatRequest.ensure_system_content: a system message is put first, or the
\* content is merged into the system message that is first: a str (or None)
\* becomes the extracted text, the separator and the new content, a list
\* gets a new text part
ensure_system_content(messages, system_content) ==
    IF messages = << >> \/ messages[1].role # "system"
    THEN <<Message("system", Str(system_content))>> \o messages
    ELSE LET content == messages[1].content
             existing_text == _extract_text_from_content(content)
             separator == IF existing_text # << >> THEN <<"\n", "\n">> ELSE << >>
         IN  IF content.kind \in {"none", "str"}
             THEN [messages EXCEPT
                     ![1].content = Str(existing_text \o separator \o system_content)]
             ELSE [messages EXCEPT
                     ![1].content =
                         List(Append(content.parts,
                                     TextPart(separator \o system_content)))]

\* the message lists a request may hold before the first call
SystemContentsAtStart ==
    {NoContent}
        \cup { Str(t) : t \in Texts(MaxText) }
        \cup { List(parts) : parts \in {<< >>, <<ImagePart>>, <<TextPart(<<"a">>)>>,
                                         <<TextPart(<<" ">>), TextPart(<<"a", " ">>)>>} }
MessageLists ==
    {<< >>, <<UserQuery>>}
        \cup { <<Message("system", c)>> : c \in SystemContentsAtStart }
        \cup { <<Message("system", c), UserQuery>> : c \in SystemContentsAtStart }

\* calls of ensure_system_content on one list
MaxEnsureCalls == 2

\* the list as it was, the list as it is, the contents supplied so far
NewChat(messages) == [original |-> messages, messages |-> messages, supplied |-> << >>]

\* handle_nilrag step 4: the context goes to the first system message, or to
\* a new one at position 0
SystemAt(messages) == { i \in 1..Len(messages) : messages[i].role = "system" }
append_relevant_context(messages) ==
    IF SystemAt(messages) = {}
    THEN <<Message("system", Str(<<"\n", "\n", "Relevant Context">>))>> \o messages
    ELSE LET i == CHOOSE i \in SystemAt(messages) : \A j \in SystemAt(messages) : i <= j
             content == messages[i].content
         IN  IF content.kind = "str"
             THEN [messages EXCEPT
                     ![i].content = Str(content.text \o <<"\n", "\n", "Relevant Context">>)]
             ELSE [messages EXCEPT
                     ![i].content =
                         List(Append(content.parts,
                                     TextPart(<<"\n", "\n", "Relevant Context">>)))]

\* what the search provider and the page fetches do for one query
SearchOutcomes == {"provider_error", "no_results", "page_error", "results"}

\* WebSearchContext(prompt, sources)
WebSearchContext(prompt, sources) == [prompt |-> prompt, sources |-> sources]
EmptyContext == WebSearchContext("", << >>)

\* perform_web_search_async: a provider error gives the empty context, no
\* result raises 404, a failed page fetch keeps the provider's snippet
perform_web_search_async(outcome) ==
    CASE outcome = "provider_error" -> [raised |-> 0, ctx |-> EmptyContext]
      [] outcome = "no_results" -> [raised |-> 404, ctx |-> EmptyContext]
      [] outcome = "page_error" ->
            [raised |-> 0, ctx |-> WebSearchContext("snippet", <<"url">>)]
      [] OTHER -> [raised |-> 0, ctx |-> WebSearchContext("page", <<"url">>)]

\* WebSearchEnhancedMessages(messages, sources)
WebSearchEnhancedMessages(messages, sources) ==
    [messages |-> messages, sources |-> sources]

\* enhance_messages_with_web_search after perform_web_search_async returned
enhance_messages_with_web_search(messages, ctx) ==
    WebSearchEnhancedMessages(
        ensure_system_content(messages, <<"web search: " \o ctx.prompt>>),
        <<"web_search_query">> \o ctx.sources)

\* _search of handle_web_search: any exception gives the empty context
_search(outcome) ==
    LET found_ctx == perform_web_search_async(outcome)
    IN  IF found_ctx.raised # 0 THEN EmptyContext ELSE found_ctx.ctx

\* enhance_messages_with_multi_web_search over the contexts of the queries
RECURSIVE AllSources(_)
AllSources(contexts) ==
    IF contexts = << >> THEN << >>
    ELSE <<"web_search_query">> \o Head(contexts).sources \o AllSources(Tail(contexts))
RECURSIVE Sections(_)
Sections(contexts) ==
    IF contexts = << >> THEN ""
    ELSE (IF Head(contexts).prompt = "" THEN "(no results)" ELSE Head(contexts).prompt)
         \o ";" \o Sections(Tail(contexts))
enhance_messages_with_multi_web_search(messages, contexts) ==
    IF contexts = << >> THEN WebSearchEnhancedMessages(messages, << >>)
    ELSE WebSearchEnhancedMessages(
             ensure_system_content(messages, <<"web search: " \o Sections(contexts)>>),
             AllSources(contexts))

\* the request before its enrichment stages
EnrichRequest(nilrag, web_search, messages) ==
    [nilrag |-> nilrag, web_search |-> web_search, messages |-> messages]
EnrichRequests ==
    { EnrichRequest(n, w, m) : n \in BOOLEAN, w \in BOOLEAN, m \in Conversations }
NewEnrichment(q) ==
    [req |-> q, pc |-> "nilrag", messages |-> q.messages, sources |-> << >>,
     status |-> 0, topics |-> 0, queries |-> 0, failed |-> {}]

(* ------------------------------- Init ---------------------------------- *)
NoRequest == Body("m1", FALSE, FALSE, 1)
NoKey == <<"", "">>
NoResponse ==
    [status |-> 0, retry_after |-> None, by |-> NoKey, milliseconds |-> 0, px |-> 0]
Response(status) == [NoResponse EXCEPT !.status = status]
EmptyStore == [k \in {} |-> 0]

NoVerdict ==
    [status |-> 0, detail |-> "", www_authenticate |-> "", limits |-> << >>,
     prompt_document |-> None]

NotExtracted == [err |-> "", limits |-> << >>]

ChainIdle ==
    /\ chain = [proofs |-> << >>]
    /\ verdict = NoVerdict
    /\ token_rate_limits = NotExtracted

\* the announcer before run_service is scheduled; announcers differ in the
\* prefix they register under and in their lease
Announcer(prefix, lease_ttl) ==
    [prefix |-> prefix, lease_ttl |-> lease_ttl, pc |-> "start", key |-> None,
     wake |-> 0, shutdown |-> FALSE, stopped_at |-> None, unregistered |-> FALSE,
     stopped_before_delete |-> FALSE, refreshes_after_delete |-> 0]

NoAnnouncer == [Announcer(DefaultPrefix, 0) EXCEPT !.pc = "off"]
NoLookup == [model_id |-> "", prefix |-> "", value |-> None, at |-> 0]
NoEvent == [event |-> "none", until |-> 0]

DiscoveryIdle ==
    /\ registry = EmptyStore
    /\ announcer = NoAnnouncer
    /\ found = NoLookup
    /\ latest = [c \in Prefixes \X LookupIds |-> NoEvent]

CallIdle ==
    /\ call = [NewCall(CallRequest("m1", FALSE, 1, 0)) EXCEPT !.pc = "off"]
    /\ query_logs = << >>

\* one bearer before its first request
NewBearer(token, config) ==
    [bearer |-> token, config |-> config, pc |-> "idle", web_search |-> FALSE,
     auth_info |-> AuthenticationInfo("", Unlimited, 0), pos |-> 0, kv |-> EmptyStore,
     requests |-> 0, credit_calls |-> 0, status |-> 0, by |-> NoKey]

EnrichIdle ==
    enrich = [NewEnrichment(EnrichRequest(FALSE, FALSE, <<UserQuery>>)) EXCEPT !.pc = "off"]
DocsIdle ==
    docs = [NewBearer(DocsToken, Unlimited) EXCEPT !.pc = "off"]
NoProbe == [models |-> 0, state_accessible |-> TRUE, answer |-> [status |-> 0, body |-> "", reason |-> ""]]
ReadyIdle ==
    ready = NoProbe
KeeperIdle ==
    keeper = [KeepAlive EXCEPT !.pc = "off"]
\* no process has started
KeygenIdle ==
    keygen = KeyGen(AbsentFile)
\* no request is in the middleware stack
MiddlewareIdle ==
    mw = [NewPassage(PlainHttpRequest) EXCEPT !.phase = "idle"]
\* no message list is being prepared
ChatIdle ==
    chat = NewChat(<< >>)
RestIdle ==
    /\ KeygenIdle
    /\ MiddlewareIdle
    /\ ChatIdle
SideIdle ==
    /\ EnrichIdle
    /\ DocsIdle
    /\ ReadyIdle
    /\ KeeperIdle
    /\ RestIdle

\* no request has arrived yet under one of the given deployments
Quiet(scenarios) ==
    /\ advances = 0
    /\ arrivals = 0
    /\ \E sc \in scenarios :
         /\ rate_limits = sc.rate_limits
         /\ concurrent_limit = sc.concurrent_limit
         /\ workload = sc.workload
    /\ kv = EmptyStore
    /\ concurrent = [k \in GaugeKeys |-> 0]
    /\ req = [r \in Reqs |-> NoRequest]
    /\ limits = [r \in Reqs |-> << >>]
    /\ pc = [r \in Reqs |-> "idle"]
    /\ pos = [r \in Reqs |-> 0]
    /\ ms = [r \in Reqs |-> 0]
    /\ gen = [r \in Reqs |-> "none"]
    /\ pending = [r \in Reqs |-> 0]
    /\ resp = [r \in Reqs |-> NoResponse]
    /\ hist = EmptyStore
    /\ calls = [r \in Reqs |-> 0]
    /\ decrs = [r \in Reqs |-> 0]
    /\ seen = [r \in Reqs |-> 0]

InitWith(scenarios) ==
    /\ now = 0
    /\ Quiet(scenarios)
    /\ ChainIdle
    /\ DiscoveryIdle
    /\ CallIdle
    /\ SideIdle

(* ------------------------------ the clock ------------------------------ *)
\* the instants the clock may move to: the next millisecond, and the last
\* instant before and the instant of the earliest pending expiry
Expiries == { kv[k].exp : k \in { j \in DOMAIN kv : kv[j].exp > now } }
AdvanceTargets ==
    {now + 1}
      \cup { e \in Expiries : \A f \in Expiries : e <= f }
      \cup { e - 1 : e \in { g \in Expiries : (\A f \in Expiries : g <= f) /\ g - 1 > now } }

Advance ==
    /\ advances < MaxAdvances
    /\ \E t \in AdvanceTargets :
         /\ now' = t
         /\ kv' = Purge(kv, t)
         /\ hist' = [k \in DOMAIN Purge(kv, t) |-> hist[k]]
    /\ advances' = advances + 1
    /\ UNCHANGED <<arrivals, rate_limits, concurrent_limit, workload, concurrent, req,
                   limits, pc, pos, ms, gen, pending, resp, calls, decrs, seen>>
    /\ UNCHANGED otherVars

(* --------------------- authentication and rate limits ------------------ *)
PlanOf(r) == Plan(req[r], limits[r], rate_limits)

\* A request arrives on a free task slot (the previous response, if any,
\* has been delivered).  get_auth_info (nuc_strategy): the token's usage
\* limits are extracted and checked for expiry; a failure is answered 401
\* before RateLimit runs
Arrive(r) ==
    /\ pc[r] \in {"idle", "done"}
    /\ arrivals < MaxArrivals
    /\ \E q \in workload :
         LET auth == get_auth_info(Tokens[q.token], "valid", "ok", now) IN
         /\ req' = [req EXCEPT ![r] = q]
         /\ IF auth.status # 200
            THEN /\ resp' = [resp EXCEPT ![r] = Response(auth.status)]
                 /\ pc' = [pc EXCEPT ![r] = "done"]
                 /\ limits' = [limits EXCEPT ![r] = << >>]
                 /\ pos' = [pos EXCEPT ![r] = 0]
            ELSE /\ limits' = [limits EXCEPT ![r] = auth.limits]
                 /\ pos' = [pos EXCEPT ![r] = 1]
                 /\ pc' = [pc EXCEPT ![r] =
                              StageAt(Plan(q, auth.limits, rate_limits), 1)]
                 /\ resp' = [resp EXCEPT ![r] = NoResponse]
    /\ arrivals' = arrivals + 1
    /\ ms' = [ms EXCEPT ![r] = 0]
    /\ gen' = [gen EXCEPT ![r] = "none"]
    /\ calls' = [calls EXCEPT ![r] = 0]
    /\ decrs' = [decrs EXCEPT ![r] = 0]
    /\ seen' = [seen EXCEPT ![r] = 0]
    /\ UNCHANGED <<now, advances, rate_limits, concurrent_limit, workload, kv,
                   concurrent, pending, hist>>
    /\ UNCHANGED otherVars

\* the argument limit.ms_remaining of a token bucket's check_bucket call is
\* read when the call is made; the script runs when the command arrives
TokenArgs(r) ==
    /\ pc[r] = "token_args"
    /\ ms' = [ms EXCEPT ![r] = ms_remaining(limits[r][PlanOf(r)[pos[r]].tok], now)]
    /\ pc' = [pc EXCEPT ![r] = "check"]
    /\ UNCHANGED <<now, advances, arrivals, rate_limits, concurrent_limit, workload, kv,
                   concurrent, req, limits, pos, gen, pending, resp, hist,
                   calls, decrs, seen>>
    /\ UNCHANGED otherVars

\* history of a key after a check that was let through
Granted(r, c, milliseconds) ==
    LET early == IF c.tok > 0 /\ now < limits[r][c.tok].expires_at THEN 1 ELSE 0 IN
    IF Live(kv, c.key, now)
    THEN [hist EXCEPT ![c.key].grants = @ + 1, ![c.key].early = @ + early]
    ELSE [k \in (DOMAIN hist) \cup {c.key} |->
            IF k = c.key
            THEN [grants |-> 1, early |-> early, limit |-> Val(c.times),
                  px |-> milliseconds]
            ELSE hist[k]]

\* check_bucket: one EVALSHA of the script, then 429 on a positive result
CheckBucket(r) ==
    /\ pc[r] = "check"
    /\ LET c == PlanOf(r)[pos[r]]
           milliseconds == IF c.tok > 0 THEN ms[r] ELSE c.milliseconds
           out == LUA_RATE_LIMIT_SCRIPT(kv, c.key, Val(c.times), milliseconds, now)
       IN  /\ kv' = IF TooManyRequests(out.ret)
                     THEN AfterRejection(out.kv, PlanOf(r), pos[r] - 1)
                     ELSE out.kv
           /\ IF TooManyRequests(out.ret)
              THEN /\ resp' = [resp EXCEPT ![r] =
                        [status |-> 429, retry_after |-> Some(out.ret),
                         by |-> c.key, milliseconds |-> milliseconds,
                         px |-> hist[c.key].px]]
                   /\ pc' = [pc EXCEPT ![r] = "done"]
                   /\ UNCHANGED <<pos, hist>>
              ELSE /\ pos' = [pos EXCEPT ![r] = @ + 1]
                   /\ pc' = [pc EXCEPT ![r] = StageAt(PlanOf(r), pos[r] + 1)]
                   /\ hist' = Granted(r, c, milliseconds)
                   /\ resp' = resp
    /\ ms' = [ms EXCEPT ![r] = 0]
    /\ UNCHANGED <<now, advances, arrivals, rate_limits, concurrent_limit, workload,
                   concurrent, req, limits, gen, pending, calls, decrs, seen>>
    /\ UNCHANGED otherVars

(* --------------------------- concurrency gauge ------------------------- *)
\* a request whose INCR on the gauge has not been matched by a DECR yet
Holding(r) == gen[r] = "suspended" \/ pc[r] = "gauge_undo"

Others(r) ==
    Cardinality({ o \in Reqs \ {r} : Holding(o) /\ GaugeKey(req[o]) = GaugeKey(req[r]) })

\* check_concurrent_and_increment up to the comparison: INCR, then either
\* the key is returned and RateLimit.__call__ yields, or the DECR is due
GaugeIncr(r) ==
    /\ pc[r] = "gauge"
    /\ req[r].valid
    /\ LET key == GaugeKey(req[r])
           current == concurrent[key] + 1
       IN  /\ concurrent' = [concurrent EXCEPT ![key] = current]
           /\ IF OverLimit(current, concurrent_limit)
              THEN /\ pc' = [pc EXCEPT ![r] = "gauge_undo"]
                   /\ seen' = [seen EXCEPT ![r] = Others(r)]
                   /\ gen' = gen
              ELSE /\ pc' = [pc EXCEPT ![r] = "handler"]
                   /\ gen' = [gen EXCEPT ![r] = "suspended"]
                   /\ seen' = seen
    /\ UNCHANGED <<now, advances, arrivals, rate_limits, concurrent_limit, workload, kv,
                   req, limits, pos, ms, pending, resp, hist, calls, decrs>>
    /\ UNCHANGED otherVars

\* the rejected request takes its own increment back and answers 429
GaugeUndo(r) ==
    /\ pc[r] = "gauge_undo"
    /\ concurrent' = [concurrent EXCEPT ![GaugeKey(req[r])] = @ - 1]
    /\ resp' = [resp EXCEPT ![r] =
                  [Response(429) EXCEPT !.by = GaugeKey(req[r])]]
    /\ pc' = [pc EXCEPT ![r] = "done"]
    /\ kv' = AfterRejection(kv, PlanOf(r), Len(PlanOf(r)))
    /\ UNCHANGED <<now, advances, arrivals, rate_limits, concurrent_limit, workload,
                   req, limits, pos, ms, gen, pending, hist, calls, decrs, seen>>
    /\ UNCHANGED otherVars

\* the body extractors (private.py lines 142-163) run after the user and
\* token buckets: a body ChatRequest refuses is answered 400 by the first
\* of them, chat_completion_web_search_rate_limit
RejectBody(r) ==
    /\ pc[r] = "gauge"
    /\ ~req[r].valid
    /\ resp' = [resp EXCEPT ![r] = Response(400)]
    /\ pc' = [pc EXCEPT ![r] = "done"]
    /\ kv' = AfterRejection(kv, PlanOf(r), Len(PlanOf(r)))
    /\ UNCHANGED <<now, advances, arrivals, rate_limits, concurrent_limit, workload,
                   concurrent, req, limits, pos, ms, gen, pending, hist, calls, decrs,
                   seen>>
    /\ UNCHANGED otherVars

\* the finally block of RateLimit.__call__.  For a StreamingResponse the
\* framework resumes the generator either before the body is produced or
\* after it has ended, so both orders are allowed
Teardown(r) ==
    /\ gen[r] = "suspended"
    /\ pc[r] \in {"teardown", "stream_ready"}
    /\ concurrent' = concurrent_decrement(concurrent, GaugeKey(req[r]))
    /\ decrs' = [decrs EXCEPT ![r] = @ + 1]
    /\ gen' = [gen EXCEPT ![r] = "closed"]
    /\ pc' = [pc EXCEPT ![r] = IF pc[r] = "teardown" THEN "done" ELSE pc[r]]
    /\ UNCHANGED <<now, advances, arrivals, rate_limits, concurrent_limit, workload, kv,
                   req, limits, pos, ms, pending, resp, hist, calls, seen>>
    /\ UNCHANGED otherVars

(* ------------------------- chat_completion ----------------------------- *)
\* the pipeline variables the handler steps leave alone
HandlerFrame ==
    /\ UNCHANGED <<now, advances, arrivals, rate_limits, concurrent_limit, workload, kv,
                   concurrent, req, limits, pos, ms, gen, hist, decrs, seen>>
    /\ UNCHANGED otherVars

\* n upstream completion calls are issued by r
Issue(r, n, stage) ==
    /\ pending' = [pending EXCEPT ![r] = n]
    /\ calls' = [calls EXCEPT ![r] = @ + n]
    /\ pc' = [pc EXCEPT ![r] = stage]

\* the handler ends (returns or raises) with the given status
Answer(r, status) ==
    /\ pending' = [pending EXCEPT ![r] = 0]
    /\ resp' = [resp EXCEPT ![r] = Response(status)]
    /\ pc' = [pc EXCEPT ![r] = IF gen[r] = "closed" THEN "done" ELSE "teardown"]
    /\ calls' = calls

\* after enrichment: the streaming branch returns the StreamingResponse,
\* the other one issues the main completion
Dispatch(r) ==
    IF req[r].stream
    THEN /\ pending' = [pending EXCEPT ![r] = 0]
         /\ pc' = [pc EXCEPT ![r] = "stream_ready"]
         /\ calls' = calls
    ELSE Issue(r, 1, "main_wait")

\* the handler body up to its first upstream call: the model is resolved
\* (400 if unknown), then web search plans its topics or the request is
\* dispatched
HandlerStart(r) ==
    /\ pc[r] = "handler"
    /\ IF ~Resolves(req[r].model)
       THEN Answer(r, 400)
       ELSE /\ IF req[r].web_search
               THEN Issue(r, 1, "ws_plan_wait")
               ELSE Dispatch(r)
            /\ resp' = resp
    /\ HandlerFrame

\* analyze_web_search_topics returns: n topics need a search (0 also when
\* the call failed); n = 0 falls back to one query generation, otherwise the
\* n query generations are gathered concurrently
WsPlanDone(r) ==
    /\ pc[r] = "ws_plan_wait"
    /\ \E n \in 0..TopicCap :
         IF n = 0 THEN Issue(r, 1, "ws_single_wait")
         ELSE Issue(r, n, "ws_fanout_wait")
    /\ resp' = resp
    /\ HandlerFrame

\* one gathered query generation returns; after the last one either some
\* query was generated, or none was and the single-query fallback runs
WsFanoutDone(r) ==
    /\ pc[r] = "ws_fanout_wait"
    /\ IF pending[r] > 1
       THEN /\ pending' = [pending EXCEPT ![r] = @ - 1]
            /\ UNCHANGED <<pc, calls>>
       ELSE \/ Dispatch(r)
            \/ Issue(r, 1, "ws_single_wait")
    /\ resp' = resp
    /\ HandlerFrame

\* the single query generation returns (or fails: the original messages are
\* kept); the request is dispatched
WsSingleDone(r) ==
    /\ pc[r] = "ws_single_wait"
    /\ Dispatch(r)
    /\ resp' = resp
    /\ HandlerFrame

\* the main completion returns: an upstream failure is answered 500, tool
\* calls lead to the one follow-up completion, otherwise 200
MainDone(r) ==
    /\ pc[r] = "main_wait"
    /\ \/ Answer(r, 500)
       \/ Answer(r, 200)
       \/ /\ Issue(r, 1, "tool_wait")
          /\ resp' = resp
    /\ HandlerFrame

\* the follow-up completion of handle_tool_workflow returns
ToolDone(r) ==
    /\ pc[r] = "tool_wait"
    /\ \E status \in {200, 500} : Answer(r, status)
    /\ HandlerFrame

\* chat_completion_stream_generator starts: the streamed completion is issued
StreamOpen(r) ==
    /\ pc[r] = "stream_ready"
    /\ Issue(r, 1, "streaming")
    /\ resp' = resp
    /\ HandlerFrame

\* the stream ends: last chunk forwarded, or the error frame after a failure
StreamEnd(r) ==
    /\ pc[r] = "streaming"
    /\ Answer(r, 200)
    /\ HandlerFrame

\* the request task is cancelled while it awaits upstream (timeout
\* middleware, client disconnect): its upstream calls are abandoned
Cancel(r) ==
    /\ pc[r] \in {"ws_plan_wait", "ws_fanout_wait", "ws_single_wait",
                  "main_wait", "tool_wait", "streaming"}
    /\ Answer(r, 504)
    /\ HandlerFrame

Next ==
    \/ Advance
    \/ \E r \in Reqs :
         \/ Arrive(r)
         \/ TokenArgs(r)
         \/ CheckBucket(r)
         \/ GaugeIncr(r)
         \/ GaugeUndo(r)
         \/ HandlerStart(r)
         \/ WsPlanDone(r)
         \/ WsFanoutDone(r)
         \/ WsSingleDone(r)
         \/ MainDone(r)
         \/ ToolDone(r)
         \/ StreamOpen(r)
         \/ StreamEnd(r)
         \/ Cancel(r)
         \/ Teardown(r)

Init == InitWith(PipelineScenarios)

Spec == Init /\ [][Next]_vars

(* ------------------ the rate limiter driven on its own ------------------ *)
\* the consumer of RateLimit.__call__ finishes its work after the yield
Consume(r) ==
    /\ pc[r] = "handler"
    /\ Answer(r, 200)
    /\ HandlerFrame

LimiterInit == InitWith(LimiterScenarios)

LimiterNext ==
    \/ Advance
    \/ \E r \in Reqs :
         \/ Arrive(r)
         \/ TokenArgs(r)
         \/ CheckBucket(r)
         \/ GaugeIncr(r)
         \/ GaugeUndo(r)
         \/ Consume(r)
         \/ Teardown(r)

SpecLimiter == LimiterInit /\ [][LimiterNext]_vars

\* the rate limiter under limits that are reached early and bodies that
\* are refused
QuotaInit == InitWith(QuotaScenarios)

QuotaNext ==
    \/ LimiterNext
    \/ \E r \in Reqs : RejectBody(r)

SpecQuota == QuotaInit /\ [][QuotaNext]_vars

(* ------------- usage-limit extraction over bounded token chains --------- *)
\* the values meta["usage_limit"] and expires_at of a proof are drawn from
ChainUsageLimits == {Absent, Null, StrVal} \cup { IntVal(n) : n \in -1..2 }
ChainExpiries == {None, Some(1)}
\* the instants at which a token is presented: before and after Some(1)
ChainClock == {0, 2}

\* meta["usage_limit"] of the invocation token (envelope.token)
InvocationUsageLimits == {Absent, IntVal(2)}

\* the envelopes of n proofs (leaf first, root last), each proof with a
\* signature of its own, under an invocation token; n is at most MaxChain
Chains(n) ==
    { [proofs |-> [i \in 1..n |-> Proof(ToString(i), f[i][1], f[i][2])],
       token |-> [usage_limit |-> u]] :
        f \in [1..n -> ChainUsageLimits \X ChainExpiries],
        u \in InvocationUsageLimits }

\* meta["document_owner_did"] of a proof: null or absent, a DID, or a string
\* that is none; meta["document_id"] is null or the proof's own document
ChainOwnerDids == {None, Some("did:nil:1"), Some("did:nil:2"), Some("nobody")}

\* the envelopes of n proofs that bind documents; n is at most MaxChain
DocChains(n) ==
    { [proofs |-> [i \in 1..n |-> DocProof(ToString(i), f[i][1],
                                           IF f[i][2] THEN Some(ToString(i))
                                           ELSE None,
                                           f[i][3])],
       token |-> [usage_limit |-> Absent]] :
        f \in [1..n -> Dids \X BOOLEAN \X ChainOwnerDids] }

ChainInit ==
    /\ now \in ChainClock
    /\ Quiet({Scenario(Unlimited, 1, {Plain})})
    /\ \/ \E n \in 0..MaxChain : chain \in Chains(n)
       \/ \E n \in 1..MaxChain : chain \in DocChains(n)
    /\ verdict = NoVerdict
    /\ token_rate_limits = NotExtracted
    /\ DiscoveryIdle
    /\ CallIdle
    /\ SideIdle

\* get_auth_info on the presented token: accepted with its limits and its
\* document binding, or 401
Authenticate ==
    /\ verdict = NoVerdict
    /\ \E nuc \in NucOutcomes, credit \in CreditOutcomes :
         verdict' = get_auth_info(chain, nuc, credit, now)
    /\ token_rate_limits' = from_token(chain, now)
    /\ chain' = chain
    /\ UNCHANGED <<pipeVars, discVars, callVars, sideVars>>

ChainNext == Authenticate

SpecChain == ChainInit /\ [][ChainNext]_vars

(* ------------------- the announcer and the registry -------------------- *)
\* the discovery clock runs in seconds up to
MaxClock == 7

\* what the request pipeline holds, apart from the clock
pipeRest == <<advances, arrivals, rate_limits, concurrent_limit, workload, kv, concurrent,
              req, limits, pc, pos, ms, gen, pending, resp, hist, calls, decrs, seen>>

DiscoveryFrame == UNCHANGED <<pipeRest, chainVars, callVars, sideVars>>

Registration(t) == [event |-> "register", until |-> t + announcer.lease_ttl]

\* run_service / _announce_model: register_model(endpoint, prefix) returns
\* the key, then keep_alive starts with its first refresh due at once
Register ==
    /\ announcer.pc = "start"
    /\ LET key == Key(announcer.prefix, ModelId) IN
       /\ registry' = setex(registry, key, announcer.lease_ttl,
                            model_dump_json(Endpoint(ModelId)), now)
       /\ announcer' = [announcer EXCEPT !.key = Some(key), !.pc = "running",
                                         !.wake = now]
    /\ latest' = [latest EXCEPT ![<<announcer.prefix, ModelId>>] = Registration(now)]
    /\ UNCHANGED <<now, found>>
    /\ DiscoveryFrame

\* the stop signal cancels the service task while the SETEX of
\* register_model is in flight: the store has applied it, the key is never
\* assigned, and the finally block runs
StopDuringRegister ==
    /\ announcer.pc = "start"
    /\ registry' = setex(registry, Key(announcer.prefix, ModelId), announcer.lease_ttl,
                         model_dump_json(Endpoint(ModelId)), now)
    /\ announcer' = [announcer EXCEPT !.pc = "finally", !.stopped_at = Some(now)]
    /\ latest' = [latest EXCEPT ![<<announcer.prefix, ModelId>>] = Registration(now)]
    /\ UNCHANGED <<now, found>>
    /\ DiscoveryFrame

\* one turn of the keep_alive loop: _refresh_ttl, then the sleep is started
Refresh ==
    /\ announcer.pc = "running"
    /\ ~announcer.shutdown
    /\ now >= announcer.wake
    /\ registry' = setex(registry, Val(announcer.key), announcer.lease_ttl,
                         model_dump_json(Endpoint(ModelId)), now)
    /\ announcer' = [announcer EXCEPT
                        !.wake = now + keep_alive_sleep(announcer.lease_ttl),
                        !.refreshes_after_delete =
                            IF announcer.unregistered THEN @ + 1 ELSE @]
    /\ latest' = [latest EXCEPT ![<<announcer.prefix, ModelId>>] = Registration(now)]
    /\ UNCHANGED <<now, found>>
    /\ DiscoveryFrame

\* main: the stop signal cancels the service task; keep_alive catches
\* CancelledError at its await, sets _shutdown and re-raises
Stop ==
    /\ announcer.pc = "running"
    /\ announcer' = [announcer EXCEPT !.pc = "finally", !.shutdown = TRUE,
                                      !.stopped_at = Some(now)]
    /\ UNCHANGED <<now, registry, found, latest>>
    /\ DiscoveryFrame

\* the finally block: if key, unregister_model(metadata.id) under the
\* default prefix; then the connection is closed
Unregister ==
    /\ announcer.pc = "finally"
    /\ IF announcer.key # None
       THEN /\ registry' = delete(registry, Key(DefaultPrefix, ModelId))
            /\ latest' = [latest EXCEPT ![<<DefaultPrefix, ModelId>>] =
                             [event |-> "unregister", until |-> now]]
            /\ announcer' = [announcer EXCEPT
                                !.pc = "closed", !.unregistered = TRUE,
                                !.stopped_before_delete = announcer.shutdown]
       ELSE /\ announcer' = [announcer EXCEPT !.pc = "closed"]
            /\ UNCHANGED <<registry, latest>>
    /\ UNCHANGED <<now, found>>
    /\ DiscoveryFrame

\* the announcer process is started again with the same settings
Restart ==
    /\ announcer.pc = "closed"
    /\ announcer' = Announcer(announcer.prefix, announcer.lease_ttl)
    /\ UNCHANGED <<now, registry, found, latest>>
    /\ DiscoveryFrame

\* a second passes; the loop is scheduled in time, so no second passes while
\* its refresh is due; the store drops the keys that expire
Tick ==
    /\ now < MaxClock
    /\ ~(announcer.pc = "running" /\ now >= announcer.wake)
    /\ now' = now + 1
    /\ registry' = Purge(registry, now + 1)
    /\ UNCHANGED <<announcer, found, latest>>
    /\ DiscoveryFrame

\* a reader calls get_model(model_id, prefix)
Lookup ==
    /\ \E model_id \in LookupIds, prefix \in Prefixes :
         found' = [model_id |-> model_id, prefix |-> prefix,
                   value |-> get_model(registry, model_id, prefix, now), at |-> now]
    /\ UNCHANGED <<now, registry, announcer, latest>>
    /\ DiscoveryFrame

\* GET /readyz of the API process, against the registry as it is
Readyz ==
    /\ \E state_accessible \in BOOLEAN :
         ready' = [models |-> Cardinality(discover_models(registry, DefaultPrefix, now)),
                   state_accessible |-> state_accessible,
                   answer |-> readyz(registry, now, state_accessible)]
    /\ UNCHANGED <<pipeVars, chainVars, discVars, callVars, enrich, docs, keeper, restVars>>

DiscoveryInit ==
    /\ now = 0
    /\ Quiet({Scenario(Unlimited, 1, {Plain})})
    /\ ChainIdle
    /\ registry = EmptyStore
    /\ \E prefix \in Prefixes, lease_ttl \in LeaseTtls :
         announcer = Announcer(prefix, lease_ttl)
    /\ found = NoLookup
    /\ latest = [c \in Prefixes \X LookupIds |-> NoEvent]
    /\ CallIdle
    /\ SideIdle

DiscoveryNext ==
    \/ Register
    \/ StopDuringRegister
    \/ Refresh
    \/ Stop
    \/ Unregister
    \/ Restart
    \/ Tick
    \/ Lookup
    \/ Readyz

SpecDiscovery == DiscoveryInit /\ [][DiscoveryNext]_vars

(* --------------------- one chat_completion call ------------------------ *)
CallFrame ==
    UNCHANGED <<now, advances, arrivals, rate_limits, concurrent_limit, workload, kv,
                req, limits, pc, pos, ms, gen, pending, resp, hist, calls, decrs, seen,
                chainVars, discVars, sideVars>>

Becomes(result) ==
    /\ call' = result.call
    /\ query_logs' = result.rows

\* RateLimit.__call__ from check_concurrent_and_increment to its yield
Admit ==
    /\ call.pc = "arrived"
    /\ LET key == GaugeKey(call.req)
           current == concurrent[key] + 1
       IN  IF OverLimit(current, concurrent_limit)
           THEN /\ concurrent' = concurrent
                /\ call' = Left(call, 429, "error", query_logs)
           ELSE /\ concurrent' = [concurrent EXCEPT ![key] = current]
                /\ call' = [call EXCEPT !.pc = "handler", !.gen = "suspended",
                                        !.stages = @ \o AdmissionStages]
    /\ UNCHANGED query_logs
    /\ CallFrame

\* chat_completion up to its first upstream call (lines 241-327 and 407-423):
\* reading meter.lock_id of the no-op meter raises AttributeError before the
\* try block is entered, which no handler of the function sees; 400 without
\* messages or for an unknown model, a failing registry read is
\* an unexpected exception; then the StreamingResponse is returned or the
\* completion is requested
Prologue ==
    /\ call.pc = "handler"
    /\ LET c == [call EXCEPT !.log_ctx.user_id =
                     Some(IF call.bearer = DocsToken THEN DocsToken ELSE UserId)]
           has_lock_id == HasLockId(LLMMeter(call.bearer))
       IN
       \/ /\ ~has_lock_id
          /\ call' = Left(c, 500, "unhandled", query_logs)
          /\ UNCHANGED query_logs
       \/ /\ has_lock_id
          /\ c.req.messages = 0
          /\ Becomes(OnHTTPException(c, query_logs, 400))
       \/ /\ has_lock_id
          /\ c.req.messages # 0
          /\ Becomes(OnException(c, query_logs))
       \/ /\ has_lock_id
          /\ c.req.messages # 0
          /\ ~Resolves(c.req.model)
          /\ Becomes(OnHTTPException(c, query_logs, 400))
       \/ /\ has_lock_id
          /\ c.req.messages # 0
          /\ Resolves(c.req.model)
          /\ call' = [c EXCEPT !.log_ctx.model = Some(c.req.model),
                               !.log_ctx.was_streamed = c.req.stream,
                               !.pc = IF c.req.stream THEN "stream_ready"
                                      ELSE "main_wait",
                               !.completions = IF c.req.stream THEN @ ELSE @ + 1,
                               !.status = IF c.req.stream THEN 200 ELSE 0,
                               !.stages = IF c.req.stream
                                          THEN @ \o SubSeq(PrologueStages, 1, 4)
                                          ELSE @ \o PrologueStages]
          /\ UNCHANGED query_logs
    /\ UNCHANGED concurrent
    /\ CallFrame

\* the first completion returns (line 423) and handle_tool_workflow reads
\* it: without tool calls it hands the response back with counts 0, 0 and
\* the handler runs to its end; with tool calls the tools run and the
\* follow-up completion is requested.  A failure is an unexpected exception
FirstCompletion ==
    /\ call.pc = "main_wait"
    /\ \/ Becomes(OnException(call, query_logs))
       \/ \E usage \in {None} \cup { Some(u) : u \in Usages },
             first_message \in ResponseMessages(1),
             outcomes \in [1..MaxToolCalls -> SandboxOutcomes] :
            LET flow == handle_tool_workflow(first_message, outcomes)
                c == [call EXCEPT !.response_usage = usage,
                                  !.tool_calls = flow.tool_calls,
                                  !.tool_messages = flow.tool_messages,
                                  !.executed = flow.executed,
                                  !.followup = flow.followup]
            IN  \/ /\ flow.tool_calls = << >>
                   /\ Becomes(Complete(c, query_logs, usage, 0, 0))
                \/ /\ flow.raised
                   /\ Becomes(OnException(c, query_logs))
                \/ /\ flow.followup # None
                   /\ call' = [c EXCEPT !.tool_round = TRUE, !.pc = "tool_wait",
                                        !.followups = @ + 1,
                                        !.completions = @ + 1,
                                        !.stages = Append(@, "tool_round")]
                   /\ UNCHANGED query_logs
    /\ UNCHANGED concurrent
    /\ CallFrame

\* handle_tool_workflow lines 184-189 and the handler's end: the follow-up
\* completion returns, its usage is added to the first one's
FollowUpCompletion ==
    /\ call.pc = "tool_wait"
    /\ \/ Becomes(OnException(call, query_logs))
       \/ \E second \in {None} \cup { Some(u) : u \in Usages },
             second_message \in ResponseMessages(2) :
            LET prompt_tokens ==
                    (IF call.response_usage = None THEN 0
                     ELSE Val(call.response_usage).prompt_tokens)
                    + (IF second = None THEN 0 ELSE Val(second).prompt_tokens)
                completion_tokens ==
                    (IF call.response_usage = None THEN 0
                     ELSE Val(call.response_usage).completion_tokens)
                    + (IF second = None THEN 0 ELSE Val(second).completion_tokens)
            IN  Becomes(Complete([call EXCEPT
                                    !.second_usage = second,
                                    !.second_tool_calls =
                                        extract_tool_calls_from_response_message(
                                            second_message)],
                                 query_logs, second, prompt_tokens, completion_tokens))
    /\ UNCHANGED concurrent
    /\ CallFrame

\* the request-timeout middleware cancels the handler at its upstream
\* await: CancelledError passes both except clauses, the answer is 504
Timeout ==
    /\ call.pc \in {"main_wait", "tool_wait"}
    /\ call' = Left(call, 504, "timeout", query_logs)
    /\ UNCHANGED <<query_logs, concurrent>>
    /\ CallFrame

\* the background task added at line 489 runs after the response
BackgroundCommit ==
    /\ call.pc = "returned"
    /\ call.background = "added"
    /\ call.status = 200
    /\ query_logs' = commit(query_logs, call.log_ctx)
    /\ call' = [call EXCEPT !.background = "ran", !.stages = Append(@, "committed")]
    /\ UNCHANGED concurrent
    /\ CallFrame

\* a generator that hands the request to the code after the stream branch
StreamStart_IntoToolLoop ==
    /\ call.pc = "stream_ready"
    /\ call' = [call EXCEPT !.pc = "main_wait", !.completions = @ + 1]
    /\ UNCHANGED <<query_logs, concurrent>>
    /\ CallFrame

\* chat_completion_stream_generator starts: the streamed completion is
\* requested (line 356)
StreamStart ==
    /\ call.pc = "stream_ready"
    /\ call' = [call EXCEPT !.pc = "stream_wait", !.upstream = "requested",
                            !.completions = @ + 1]
    /\ UNCHANGED <<query_logs, concurrent>>
    /\ CallFrame

\* ChatCompletionChunk: the usage it carries, if any, and the tool calls of
\* its delta
Chunk(usage, tool_calls) == [usage |-> usage, tool_calls |-> tool_calls]
ChunkToolCalls == {<< >>} \cup ToolCallLists(1, 1)
Chunks ==
    { Chunk(usage, tool_calls) :
        usage \in {None} \cup { Some(u) : u \in Usages },
        tool_calls \in ChunkToolCalls }

\* one SSE frame the generator yields: a forwarded chunk with the usage and
\* the tool calls it carries, or the error frame
Frame(kind, usage, tool_calls) ==
    [kind |-> kind, usage |-> usage, tool_calls |-> tool_calls]

\* a loop body that keeps the counters of the first usage-bearing chunk
forward_chunk_KeepFirst(c, chunk) ==
    LET usage == chunk.usage IN
    IF usage = None \/ c.usage_seen
    THEN [c EXCEPT !.chunks = @ + 1, !.frames = Append(@, Frame("chunk", usage, chunk.tool_calls))]
    ELSE [c EXCEPT !.chunks = @ + 1, !.usage_seen = TRUE,
                   !.prompt_token_usage = Val(usage).prompt_tokens,
                   !.completion_token_usage = Val(usage).completion_tokens,
                   !.frames = Append(@, Frame("chunk", usage, chunk.tool_calls))]

\* the body of `async for chunk in response` (lines 359-368): a chunk with
\* usage sets the two counters, every chunk is yielded
forward_chunk(c, chunk) ==
    LET usage == chunk.usage IN
    IF usage = None
    THEN [c EXCEPT !.chunks = @ + 1, !.frames = Append(@, Frame("chunk", usage, chunk.tool_calls))]
    ELSE [c EXCEPT !.chunks = @ + 1, !.usage_seen = TRUE,
                   !.prompt_token_usage = Val(usage).prompt_tokens,
                   !.completion_token_usage = Val(usage).completion_tokens,
                   !.frames = Append(@, Frame("chunk", usage, chunk.tool_calls))]

\* except Exception of the generator (lines 396-400): error 500 is logged and
\* the error frame is sent
StreamError(c, rows) ==
    LET log_ctx == set_error(c.log_ctx, 500)
        rows2 == commit(rows, log_ctx)
    IN  [call |-> [c EXCEPT !.log_ctx = log_ctx, !.pc = "returned",
                            !.outcome = "stream_failed", !.upstream = "closed",
                            !.chunks = @ + 1, !.rows_at_answer = Len(rows2),
                            !.frames = Append(@, Frame("stream_failed", None, << >>))],
         rows |-> rows2]

\* the upstream answers the request with a stream, or fails
StreamOpened ==
    /\ call.pc = "stream_wait"
    /\ \/ /\ call' = [call EXCEPT !.pc = "streaming", !.upstream = "open"]
          /\ UNCHANGED query_logs
       \/ Becomes(StreamError(call, query_logs))
    /\ UNCHANGED concurrent
    /\ CallFrame

\* one chunk arrives and is forwarded (lines 358-368); a chunk with usage
\* sets the two counters
StreamChunk ==
    /\ call.pc = "streaming"
    /\ call.chunks < MaxChunks
    /\ \E chunk \in Chunks :
         call' = [forward_chunk(call, chunk) EXCEPT !.streamed = Append(@, chunk)]
    /\ UNCHANGED <<query_logs, concurrent>>
    /\ CallFrame

\* the stream ends (lines 370-385): meter, set_usage and commit; or the
\* stream fails on the way
StreamDone ==
    /\ call.pc = "streaming"
    /\ \/ LET log_ctx == set_usage(call.log_ctx, call.prompt_token_usage,
                                    call.completion_token_usage, call.req.sources)
              rows2 == commit(query_logs, log_ctx)
          IN  /\ call' = [call EXCEPT
                             !.log_ctx = log_ctx, !.pc = "returned",
                             !.outcome = "success", !.upstream = "closed",
                             !.rows_at_answer = Len(rows2),
                             !.meter = Some([prompt_tokens |-> call.prompt_token_usage,
                                             completion_tokens |->
                                                 call.completion_token_usage,
                                             web_searches |-> call.req.sources])]
              /\ query_logs' = rows2
       \/ Becomes(StreamError(call, query_logs))
    /\ UNCHANGED concurrent
    /\ CallFrame

\* the client disconnects while the body is streamed: the generator is
\* cancelled at its await or closed at its yield; CancelledError and
\* GeneratorExit pass except Exception.  The generator does not close the
\* upstream stream; the client library may
Disconnect ==
    /\ call.pc \in {"stream_wait", "streaming"}
    /\ \E upstream \in {"closed", "abandoned"} :
         call' = [call EXCEPT !.pc = "returned", !.outcome = "cancelled",
                              !.upstream = upstream,
                              !.rows_at_answer = Len(query_logs)]
    /\ UNCHANGED <<query_logs, concurrent>>
    /\ CallFrame

\* the finally block of RateLimit.__call__; for a StreamingResponse it runs
\* before the body is produced or after it has ended
Release ==
    /\ call.gen = "suspended"
    /\ call.pc \in {"returned", "stream_ready"}
    /\ concurrent' = concurrent_decrement(concurrent, GaugeKey(call.req))
    /\ call' = [call EXCEPT !.gen = "closed"]
    /\ UNCHANGED query_logs
    /\ CallFrame

HandlerInit ==
    /\ now = 0
    /\ Quiet({Scenario(Unlimited, 1, {Plain})})
    /\ ChainIdle
    /\ DiscoveryIdle
    /\ \E q \in CallRequests, token \in Bearers :
         call = [NewCall(q) EXCEPT !.bearer = token]
    /\ query_logs = << >>
    /\ SideIdle

HandlerNext ==
    \/ Admit
    \/ Prologue
    \/ FirstCompletion
    \/ FollowUpCompletion
    \/ Timeout
    \/ BackgroundCommit
    \/ StreamStart
    \/ StreamOpened
    \/ StreamChunk
    \/ StreamDone
    \/ Disconnect
    \/ Release

SpecHandler == HandlerInit /\ [][HandlerNext]_vars

(* ---------------------- the start of the processes --------------------- *)
KeygenFrame ==
    UNCHANGED <<pipeVars, chainVars, discVars, callVars, enrich, docs, ready, keeper, mw,
                chat>>

\* line 24: open(lock_path, "a").close() creates the lock file if it is missing
TouchLock(p) ==
    /\ keygen.pc[p] = "start"
    /\ keygen' = [keygen EXCEPT !.pc[p] = "touched", !.lock_file = TRUE]
    /\ KeygenFrame

\* line 26: open(lock_path, "r+")
OpenLock(p) ==
    /\ keygen.pc[p] = "touched"
    /\ keygen.lock_file
    /\ keygen' = [keygen EXCEPT !.pc[p] = "waiting"]
    /\ KeygenFrame

\* line 27: flock blocks until the lock is granted
Flock(p) ==
    /\ keygen.pc[p] = "waiting"
    /\ flock_granted(keygen.holders, p)
    /\ keygen' = [keygen EXCEPT !.pc[p] = "locked", !.holders = @ \cup {p}]
    /\ KeygenFrame

\* line 29: os.path.exists(PRIVATE_KEY_PATH)
CheckExists(p) ==
    /\ keygen.pc[p] = "locked"
    /\ keygen' = [keygen EXCEPT !.pc[p] = IF keygen.file.exists THEN "reading"
                                          ELSE "generating"]
    /\ KeygenFrame

\* lines 30-34: the file is read; no bytes raise ValueError, which leaves
\* the two with blocks (closing the lock file drops the lock)
ReadKey(p) ==
    /\ keygen.pc[p] = "reading"
    /\ \/ /\ keygen.file.bytes = NoBytes
          /\ keygen' = [keygen EXCEPT !.pc[p] = "failed", !.holders = @ \ {p}]
       \/ /\ keygen.file.bytes # NoBytes
          /\ keygen' = [keygen EXCEPT !.pc[p] = "unlocking",
                                      !.private_key[p] = Some(keygen.file.bytes)]
    /\ KeygenFrame

\* lines 36-37: PrivateKey() and open(PRIVATE_KEY_PATH, "wb"), which creates
\* the file, or truncates it, before anything is written
OpenForWrite(p) ==
    /\ keygen.pc[p] = "generating"
    /\ keygen' = [keygen EXCEPT !.pc[p] = "writing",
                                !.private_key[p] = Some(FreshKey(p)),
                                !.file = KeyFile(TRUE, NoBytes)]
    /\ KeygenFrame

\* lines 38-39: f.write and the close of the with block
WriteKey(p) ==
    /\ keygen.pc[p] = "writing"
    /\ keygen' = [keygen EXCEPT !.pc[p] = "unlocking",
                                !.file = KeyFile(TRUE, Val(keygen.private_key[p])),
                                !.writes = @ + 1]
    /\ KeygenFrame

\* lines 42-49: LOCK_UN and the return of the key pair
Unlock(p) ==
    /\ keygen.pc[p] = "unlocking"
    /\ keygen' = [keygen EXCEPT !.pc[p] = "done", !.holders = @ \ {p}]
    /\ KeygenFrame

KeygenInit ==
    /\ now = 0
    /\ Quiet({Scenario(Unlimited, 1, {Plain})})
    /\ ChainIdle
    /\ DiscoveryIdle
    /\ CallIdle
    /\ EnrichIdle
    /\ DocsIdle
    /\ ReadyIdle
    /\ KeeperIdle
    /\ MiddlewareIdle
    /\ ChatIdle
    /\ \E file \in KeyFiles : keygen = KeyGen(file)

KeygenNext ==
    \/ \E p \in Procs : TouchLock(p)
    \/ \E p \in Procs : OpenLock(p)
    \/ \E p \in Procs : Flock(p)
    \/ \E p \in Procs : CheckExists(p)
    \/ \E p \in Procs : ReadKey(p)
    \/ \E p \in Procs : OpenForWrite(p)
    \/ \E p \in Procs : WriteKey(p)
    \/ \E p \in Procs : Unlock(p)

SpecKeygen == KeygenInit /\ [][KeygenNext]_vars

(* -------------------- a request through the stack --------------------- *)
MiddlewareFrame ==
    UNCHANGED <<pipeVars, chainVars, discVars, callVars, enrich, docs, ready, keeper,
                keygen, chat>>

LayerIndex(cls) == CHOOSE i \in 1..Len(user_middleware) : user_middleware[i] = cls

\* the response or exception leaves layer pos outwards
Outwards(m) ==
    IF m.pos = 1 THEN [m EXCEPT !.pos = 0, !.phase = "left"]
    ELSE [m EXCEPT !.pos = @ - 1]

\* dispatch of the layer at pos up to its call_next
EnterLayer ==
    /\ mw.phase = "down"
    /\ LET cls == user_middleware[mw.pos]
           inside == [mw EXCEPT !.entered = Append(@, cls)]
           inwards == IF mw.pos = Len(user_middleware)
                      THEN [inside EXCEPT !.phase = "app"]
                      ELSE [inside EXCEPT !.pos = @ + 1]
       IN  \/ /\ cls = "RequestSizeLimitMiddleware"
              /\ mw.req.content_length = "over"
              /\ mw' = Outwards([inside EXCEPT !.phase = "raised", !.status = 413,
                                               !.origin = cls])
           \/ /\ cls = "RequestSizeLimitMiddleware"
              /\ mw.req.content_length # "over"
              /\ mw' = inwards
           \/ /\ cls = "RequestTimeoutMiddleware"
              /\ mw' = [inwards EXCEPT !.timer = "armed"]
           \/ /\ cls \notin {"RequestSizeLimitMiddleware", "RequestTimeoutMiddleware"}
              /\ mw' = inwards
    /\ MiddlewareFrame

\* the routes answer, or an exception handler inside the stack does
AppAnswers ==
    /\ mw.phase = "app"
    /\ \E status \in AppStatuses :
         mw' = [mw EXCEPT !.phase = "up", !.status = status, !.origin = "app",
                          !.timer = IF @ = "armed" THEN "off" ELSE @]
    /\ MiddlewareFrame

\* asyncio.timeout expires while the layers inside RequestTimeoutMiddleware
\* run: they are cancelled and dispatch raises HTTPException(504), lines 65-69
TimeoutExpires ==
    /\ mw.timer = "armed"
    /\ mw.phase \in {"down", "app"}
    /\ mw' = Outwards([mw EXCEPT !.phase = "raised", !.status = 504,
                                 !.origin = "RequestTimeoutMiddleware",
                                 !.timer = "fired",
                                 !.pos = LayerIndex("RequestTimeoutMiddleware")])
    /\ MiddlewareFrame

\* call_next of the layer at pos returns the response: the rest of dispatch
PassResponse ==
    /\ mw.phase = "up"
    /\ LET cls == user_middleware[mw.pos]
       IN  mw' = Outwards([mw EXCEPT !.crossed = Append(@, cls),
                                     !.headers = AfterCallNext(cls, @)])
    /\ MiddlewareFrame

\* call_next of the layer at pos raises: no dispatch catches HTTPException,
\* the rest of dispatch is skipped
PassException ==
    /\ mw.phase = "raised"
    /\ mw' = Outwards([mw EXCEPT !.crossed = Append(@, user_middleware[mw.pos])])
    /\ MiddlewareFrame

MiddlewareInit ==
    /\ now = 0
    /\ Quiet({Scenario(Unlimited, 1, {Plain})})
    /\ ChainIdle
    /\ DiscoveryIdle
    /\ CallIdle
    /\ EnrichIdle
    /\ DocsIdle
    /\ ReadyIdle
    /\ KeeperIdle
    /\ KeygenIdle
    /\ ChatIdle
    /\ \E q \in HttpRequests : mw = NewPassage(q)

MiddlewareNext ==
    \/ EnterLayer
    \/ AppAnswers
    \/ TimeoutExpires
    \/ PassResponse
    \/ PassException

SpecMiddleware == MiddlewareInit /\ [][MiddlewareNext]_vars

(* ------------------- the system message of a request ------------------- *)
ChatFrame ==
    UNCHANGED <<pipeVars, chainVars, discVars, callVars, enrich, docs, ready, keeper,
                keygen, mw>>

\* one call of req.ensure_system_content(system_content)
EnsureSystemContent ==
    /\ Len(chat.supplied) < MaxEnsureCalls
    /\ \E system_content \in Texts(MaxText) :
         chat' = [chat EXCEPT
                    !.messages = ensure_system_content(@, system_content),
                    !.supplied = Append(@, system_content)]
    /\ ChatFrame

ChatInit ==
    /\ now = 0
    /\ Quiet({Scenario(Unlimited, 1, {Plain})})
    /\ ChainIdle
    /\ DiscoveryIdle
    /\ CallIdle
    /\ EnrichIdle
    /\ DocsIdle
    /\ ReadyIdle
    /\ KeeperIdle
    /\ KeygenIdle
    /\ MiddlewareIdle
    /\ \E messages \in MessageLists : chat = NewChat(messages)

ChatNext == EnsureSystemContent

SpecChat == ChatInit /\ [][ChatNext]_vars

(* ----------------- the enrichment stages of one request ----------------- *)
EnrichFrame ==
    UNCHANGED <<pipeVars, chainVars, discVars, callVars, docs, ready, keeper, restVars>>

\* chat_completion lines 305-311: handle_nilrag changes the system message;
\* any failure in it leaves as HTTPException 500 and ends the request
HandleNilrag ==
    /\ enrich.pc = "nilrag"
    /\ IF ~enrich.req.nilrag
       THEN enrich' = [enrich EXCEPT !.pc = "web_search"]
       ELSE \/ enrich' = [enrich EXCEPT !.pc = "web_search",
                                         !.messages = append_relevant_context(@)]
            \/ enrich' = [enrich EXCEPT !.pc = "failed", !.status = 500,
                                         !.failed = @ \cup {"nilrag"}]
    /\ EnrichFrame

\* handle_web_search lines 360-372: the planner names the topics to search;
\* a failing planner names none
AnalyzeTopics ==
    /\ enrich.pc = "web_search"
    /\ IF ~enrich.req.web_search
       THEN enrich' = [enrich EXCEPT !.pc = "dispatch"]
       ELSE \/ enrich' = [enrich EXCEPT !.pc = "single_query",
                                         !.failed = @ \cup {"planner"}]
            \/ \E n \in 0..MaxTopics :
                 enrich' = [enrich EXCEPT !.topics = n,
                                          !.pc = IF n = 0 THEN "single_query"
                                                 ELSE "queries"]
    /\ EnrichFrame

\* lines 374-394: one query per topic; a topic whose query fails is dropped
GenerateQueries ==
    /\ enrich.pc = "queries"
    /\ \E n \in 0..enrich.topics :
         enrich' = [enrich EXCEPT
                       !.queries = n,
                       !.failed = IF n < enrich.topics THEN @ \cup {"query"} ELSE @,
                       !.pc = IF n = 0 THEN "single_query" ELSE "search"]
    /\ EnrichFrame

\* lines 371-372 and 393-394 with the handlers at 408-414: the single-query
\* path; a failing query generation and a 404 give back req.messages
SingleQuery ==
    /\ enrich.pc = "single_query"
    /\ \/ enrich' = [enrich EXCEPT !.pc = "dispatch", !.failed = @ \cup {"query"}]
       \/ \E outcome \in SearchOutcomes :
            LET found_ctx == perform_web_search_async(outcome)
                enhanced == enhance_messages_with_web_search(enrich.messages,
                                                             found_ctx.ctx)
                failure == IF outcome = "results" THEN {}
                           ELSE IF outcome = "page_error" THEN {"page"}
                           ELSE {"provider"}
            IN  enrich' = IF found_ctx.raised # 0
                          THEN [enrich EXCEPT !.pc = "dispatch",
                                              !.failed = @ \cup failure]
                          ELSE [enrich EXCEPT !.pc = "dispatch",
                                              !.messages = enhanced.messages,
                                              !.sources = enhanced.sources,
                                              !.failed = @ \cup failure]
    /\ EnrichFrame

\* lines 396-406: the searches of the topic queries and the merged message
SearchTopics ==
    /\ enrich.pc = "search"
    /\ \E outcomes \in [1..enrich.queries -> SearchOutcomes] :
         LET contexts == [i \in 1..enrich.queries |-> _search(outcomes[i])]
             enhanced == enhance_messages_with_multi_web_search(enrich.messages,
                                                                contexts)
             failure ==
                 (IF \E i \in 1..enrich.queries :
                        outcomes[i] \in {"provider_error", "no_results"}
                  THEN {"provider"} ELSE {})
                 \cup (IF \E i \in 1..enrich.queries : outcomes[i] = "page_error"
                       THEN {"page"} ELSE {})
         IN  enrich' = [enrich EXCEPT !.pc = "dispatch",
                                      !.messages = enhanced.messages,
                                      !.sources = enhanced.sources,
                                      !.failed = @ \cup failure]
    /\ EnrichFrame

\* line 423 (or 356): the completion is requested with messages
DispatchEnriched ==
    /\ enrich.pc = "dispatch"
    /\ enrich' = [enrich EXCEPT !.pc = "dispatched"]
    /\ EnrichFrame

EnrichInit ==
    /\ now = 0
    /\ Quiet({Scenario(Unlimited, 1, {Plain})})
    /\ ChainIdle
    /\ DiscoveryIdle
    /\ CallIdle
    /\ \E q \in EnrichRequests : enrich = NewEnrichment(q)
    /\ DocsIdle
    /\ ReadyIdle
    /\ KeeperIdle
    /\ RestIdle

EnrichNext ==
    \/ HandleNilrag
    \/ AnalyzeTopics
    \/ GenerateQueries
    \/ SingleQuery
    \/ SearchTopics
    \/ DispatchEnriched

SpecEnrich == EnrichInit /\ [][EnrichNext]_vars

(* ------------------ the requests of one bearer -------------------------- *)
DocsFrame ==
    UNCHANGED <<pipeVars, chainVars, discVars, callVars, enrich, ready, keeper, restVars>>

\* the plan of bucket checks of the bearer's current request
DocsPlan ==
    ForUser(Plan(Body("m1", docs.web_search, FALSE, 1), << >>,
                 docs.auth_info.rate_limits),
            docs.auth_info.user_id)

\* get_auth_info and get_user_limits for the next request of the bearer
DocsAuthenticate ==
    /\ docs.pc = "idle"
    /\ docs.requests < MaxDocsRequests
    /\ \E web_search \in BOOLEAN :
         LET auth_info == allow_token(DocsToken, docs.bearer, docs.config)
         IN  docs' = [docs EXCEPT !.pc = "check", !.web_search = web_search,
                                  !.auth_info = auth_info, !.pos = 1,
                                  !.requests = @ + 1,
                                  !.credit_calls = @ + auth_info.credit_calls,
                                  !.status = 0, !.by = NoKey]
    /\ DocsFrame

\* RateLimit.__call__: the next check_bucket call, or the end of the checks
DocsCheckBucket ==
    /\ docs.pc = "check"
    /\ IF docs.pos > Len(DocsPlan)
       THEN docs' = [docs EXCEPT !.pc = "idle", !.status = 200]
       ELSE LET c == DocsPlan[docs.pos]
                out == LUA_RATE_LIMIT_SCRIPT(docs.kv, c.key, Val(c.times),
                                             c.milliseconds, now)
            IN  IF TooManyRequests(out.ret)
                THEN docs' = [docs EXCEPT !.pc = "idle", !.status = 429, !.by = c.key,
                                          !.kv = out.kv]
                ELSE docs' = [docs EXCEPT !.pos = @ + 1, !.kv = out.kv]
    /\ DocsFrame

DocsInit ==
    /\ now = 0
    /\ Quiet({Scenario(Unlimited, 1, {Plain})})
    /\ ChainIdle
    /\ DiscoveryIdle
    /\ CallIdle
    /\ EnrichIdle
    /\ ReadyIdle
    /\ KeeperIdle
    /\ RestIdle
    /\ \E token \in Bearers, config \in RateLimitingConfigs :
         docs = NewBearer(token, config)

DocsNext ==
    \/ DocsAuthenticate
    \/ DocsCheckBucket

SpecDocs == DocsInit /\ [][DocsNext]_vars

(* ------------------ keep_alive against a failing store ------------------ *)
KeeperFrame ==
    UNCHANGED <<pipeVars, chainVars, discVars, callVars, enrich, docs, ready, restVars>>

\* the store becomes unreachable, or reachable again
StoreDown ==
    /\ keeper.store_up
    /\ keeper.outages < MaxOutages
    /\ keeper' = [keeper EXCEPT !.store_up = FALSE, !.outages = @ + 1]
    /\ KeeperFrame
StoreUp ==
    /\ ~keeper.store_up
    /\ keeper' = [keeper EXCEPT !.store_up = TRUE]
    /\ KeeperFrame

\* the lease runs out: the loop refreshes in time while its refreshes
\* succeed, so the TTL is reached only after a failed attempt or once the
\* task has ended
LeaseExpires ==
    /\ keeper.lease
    /\ keeper.errors > 0 \/ keeper.pc = "stopped"
    /\ keeper' = [keeper EXCEPT !.lease = FALSE, !.lapsed = TRUE]
    /\ KeeperFrame

\* one attempt of _refresh_ttl under its retry decorator: SETEX, then
\* is_healthy = True; a failed attempt is waited out and repeated, the third
\* failure leaves as RetryError
RefreshAttempt ==
    /\ keeper.pc = "attempt"
    /\ keeper' =
         IF keeper.store_up
         THEN [keeper EXCEPT !.lease = TRUE, !.is_healthy = TRUE, !.pc = "sleep",
                             !.attempt = 1, !.errors = 0, !.exhausted = FALSE,
                             !.absorbed = @ \/ (keeper.errors > 0 /\ ~keeper.exhausted)]
         ELSE IF keeper.attempt < RefreshAttempts
         THEN [keeper EXCEPT !.pc = "wait", !.attempt = @ + 1,
                             !.errors = Min(@ + 1, RefreshAttempts)]
         ELSE [keeper EXCEPT !.pc = "except",
                             !.errors = Min(@ + 1, RefreshAttempts)]
    /\ KeeperFrame

\* wait_exponential(multiplier=1, min=4, max=10) has passed
Backoff ==
    /\ keeper.pc = "wait"
    /\ keeper' = [keeper EXCEPT !.pc = "attempt"]
    /\ KeeperFrame

\* except Exception of keep_alive
HandleRefreshFailure ==
    /\ keeper.pc = "except"
    /\ keeper' = OnRefreshFailure(keeper)
    /\ KeeperFrame

\* asyncio.sleep(lease_ttl // 2) returns
Wake ==
    /\ keeper.pc = "sleep"
    /\ keeper' = [keeper EXCEPT !.pc = "attempt"]
    /\ KeeperFrame

\* the task is cancelled at one of its awaits: except CancelledError sets
\* _shutdown and re-raises, finally sets is_healthy = False
CancelKeepAlive ==
    /\ keeper.pc \in {"attempt", "wait", "sleep"}
    /\ keeper' = [keeper EXCEPT !.pc = "stopped", !.shutdown = TRUE,
                                !.is_healthy = FALSE]
    /\ KeeperFrame

KeeperInit ==
    /\ now = 0
    /\ Quiet({Scenario(Unlimited, 1, {Plain})})
    /\ ChainIdle
    /\ DiscoveryIdle
    /\ CallIdle
    /\ EnrichIdle
    /\ DocsIdle
    /\ ReadyIdle
    /\ RestIdle
    /\ keeper = KeepAlive

KeeperLoop ==
    \/ RefreshAttempt
    \/ Backoff
    \/ HandleRefreshFailure
    \/ Wake

KeeperNext ==
    \/ StoreDown
    \/ StoreUp
    \/ LeaseExpires
    \/ KeeperLoop
    \/ CancelKeepAlive

\* the event loop keeps running the task
SpecKeepAlive == KeeperInit /\ [][KeeperNext]_vars /\ WF_vars(KeeperLoop)

(* ============================== properties ============================== *)
\* the keys of the fixed-window and token buckets, and of the no-expiry ones
ForeverScopes == {"user", "web_search"}
Denied(r) == resp[r].status = 429
DeniedBy(r, scope) == Denied(r) /\ resp[r].by[1] = scope
Unknown(r) == pc[r] # "idle" /\ req[r].model \notin Registered

\* C1: a bucket key created with a window W > 0 and checked with a limit
\* L >= 1 lets at most L calls through between its creation and its expiry,
\* whatever the interleaving of the requests that check it.
C1_AtMostLimitPerWindow ==
    \A k \in DOMAIN hist :
        (hist[k].px > 0 /\ hist[k].limit >= 1) => hist[k].grants <= hist[k].limit

\* C1 witness: a key with a window has let exactly its limit through and a
\* further call inside the window was denied by it.
C1_Witness ==
    \E r \in Reqs : \E k \in DOMAIN hist :
        /\ Denied(r) /\ resp[r].by = k
        /\ hist[k].px > 0 /\ hist[k].limit >= 1
        /\ hist[k].grants = hist[k].limit

\* C2: the no-expiry buckets (user:{id} with the forever limit and
\* web_search:{id}) enforce their limit: no more than the limit is ever let
\* through on such a key.
C2_ForeverLimitEnforced ==
    \A k \in DOMAIN hist :
        (k[1] \in ForeverScopes /\ hist[k].limit >= 1)
            => hist[k].grants <= hist[k].limit

\* C3: every 429 of the RateLimit dependency, from a bucket or from the
\* gauge, carries a Retry-After that is > 0 and at most the window of the
\* bucket that denied.
C3_RetryAfterOnEveryDenial ==
    \A r \in Reqs :
        Denied(r) =>
            /\ resp[r].retry_after # None
            /\ Val(resp[r].retry_after) > 0
            /\ Val(resp[r].retry_after) <= resp[r].px

\* C4: for every gauge key the requests that passed
\* check_concurrent_and_increment and have not run concurrent_decrement never
\* outnumber the limit, and a request is rejected by the gauge only when the
\* limit was already taken by others (so `limit` arrivals on an idle gauge
\* are all admitted).
C4_GaugeBound ==
    /\ \A k \in GaugeKeys :
          Cardinality({ r \in Reqs : gen[r] = "suspended" /\ GaugeKey(req[r]) = k })
              <= concurrent_limit
    /\ \A r \in Reqs :
          (pc[r] = "gauge_undo" \/ DeniedBy(r, "concurrent"))
              => seen[r] >= concurrent_limit

\* C4 witness: the gauge is full and a further request has been rejected.
C4_Witness ==
    \E r \in Reqs :
        /\ pc[r] = "gauge_undo"
        /\ Cardinality({ o \in Reqs : gen[o] = "suspended"
                                        /\ GaugeKey(req[o]) = GaugeKey(req[r]) })
              = concurrent_limit

C6_InFlightWithinLimit ==
    \A m \in Models : InFlight(m) <= concurrent_limit

\* C7: no upstream call is issued by a request before all its bucket checks
\* were let through and the gauge was incremented; a request denied by a
\* bucket or by the gauge has issued none.
C7_ChecksBeforeUpstream ==
    \A r \in Reqs :
        /\ (pending[r] > 0 \/ calls[r] > 0)
              => (pos[r] = Len(PlanOf(r)) + 1 /\ gen[r] # "none")
        /\ Denied(r) => calls[r] = 0

\* C7 witness: a request with two bucket checks in its plan has an upstream
\* call in flight.
C7_Witness ==
    \E r \in Reqs : pending[r] > 0 /\ Len(PlanOf(r)) >= 2

C9_TokenBucketWithinUsageLimit ==
    /\ \A k \in DOMAIN hist :
          k[1] = "token" => hist[k].early <= hist[k].limit
    /\ \A r \in Reqs :
          DeniedBy(r, "token") =>
              /\ Val(resp[r].retry_after) >= 1
              /\ Val(resp[r].retry_after) <= resp[r].milliseconds

\* C10: for a token chain accepted by authentication the usage limits
\* extracted root-to-leaf are all strictly positive, the first included, and
\* non-increasing.
C10_AcceptedLimitsPositiveNonIncreasing ==
    verdict.status = 200 =>
        \A i \in 1..Len(verdict.limits) :
            /\ verdict.limits[i].usage_limit > 0
            /\ i > 1 => verdict.limits[i].usage_limit
                            <= verdict.limits[i - 1].usage_limit

\* the proofs root-to-leaf that carry an integer usage_limit, and whether a
\* proof carries one of another type or binds a document
HasInt(p) == p.usage_limit.kind = "int"
HasStr(p) == p.usage_limit.kind = "str"
Binds(p) == p.document_id # None /\ p.document_owner_did # None
Carried(token) == SelectSeq(Reverse(token.proofs), HasInt)
Extracted == token_rate_limits # NotExtracted
Answered == verdict # NoVerdict

\* C11: TokenRateLimits.from_token returns exactly the integer usage_limit
\* values of the proofs in root-to-leaf order (None when there is none); null
\* and absent ones are skipped and the monotonicity check runs across the
\* integer values only; the invocation token's usage_limit is ignored.
C11_ExtractsCarriedLimits ==
    Extracted =>
        LET carried == Carried(chain)
            returned == token_rate_limits.limits
        IN  /\ token_rate_limits.err = "ok" =>
                 /\ Len(returned) = Len(carried)
                 /\ \A i \in 1..Len(carried) :
                       /\ returned[i].usage_limit = carried[i].usage_limit.v
                       /\ returned[i].signature = carried[i].signature
            /\ token_rate_limits.err = "ok" <=>
                 /\ \A i \in 1..Len(chain.proofs) : ~HasStr(chain.proofs[i])
                 /\ \A i \in 2..Len(carried) :
                       /\ 0 < carried[i].usage_limit.v
                       /\ carried[i].usage_limit.v <= carried[i - 1].usage_limit.v
            /\ \A u \in InvocationUsageLimits :
                 from_token([chain EXCEPT !.token = [usage_limit |-> u]], now)
                     = token_rate_limits

\* C11 witness: a chain of three proofs whose middle one has a null
\* usage_limit, under an invocation token that carries one, gave the two
\* limits 2 and 1 of its root and its leaf.
C11_Witness ==
    /\ Extracted /\ token_rate_limits.err = "ok"
    /\ Len(chain.proofs) = 3
    /\ chain.proofs[2].usage_limit = Null
    /\ chain.token.usage_limit = IntVal(2)
    /\ Len(token_rate_limits.limits) = 2
    /\ token_rate_limits.limits[1].usage_limit = 2
    /\ token_rate_limits.limits[2].usage_limit = 1

\* C12: the document binding of a chain is the first proof root-to-leaf whose
\* document_id and document_owner_did are both non-null; if its owner is not
\* its issuer the token is rejected by authentication, otherwise an accepted
\* token carries that proof's document, whatever the proofs further down say.
C12_FirstDocumentBinding ==
    Answered =>
        LET rev == Reverse(chain.proofs)
            bound == { i \in 1..Len(rev) : Binds(rev[i]) }
        IN  IF bound = {}
            THEN /\ verdict.prompt_document = None
                 /\ verdict.detail # "document owner"
            ELSE LET first == CHOOSE i \in bound : \A j \in bound : i <= j IN
                 IF Val(rev[first].document_owner_did) = rev[first].issuer
                 THEN /\ verdict.detail # "document owner"
                      /\ verdict.status = 200 =>
                            verdict.prompt_document =
                                Some([document_id |-> Val(rev[first].document_id),
                                      owner_did |-> Val(rev[first].document_owner_did)])
                 ELSE verdict.status = 401

\* C12 witness: a token was accepted with the document of its root although
\* a proof further down binds a document whose owner is not its issuer.
C12_Witness ==
    /\ Answered /\ verdict.status = 200
    /\ Len(chain.proofs) >= 2
    /\ Binds(chain.proofs[Len(chain.proofs)])
    /\ Binds(chain.proofs[1])
    /\ Val(chain.proofs[1].document_owner_did) # chain.proofs[1].issuer
    /\ verdict.prompt_document # None
    /\ Val(verdict.prompt_document).document_id
          = Val(chain.proofs[Len(chain.proofs)].document_id)

\* C13: whatever fails while the bearer credential is resolved, get_auth_info
\* answers 401 with WWW-Authenticate: Bearer and nothing else; a token is
\* accepted only if its usage limits were extracted, none has expired and its
\* document binding is sound.
C13_AuthFailuresAre401 ==
    Answered =>
        /\ verdict.status \in {200, 401}
        /\ verdict.status = 401 => verdict.www_authenticate = "Bearer"
        /\ verdict.status = 200 =>
              /\ token_rate_limits.err = "ok"
              /\ \A i \in 1..Len(verdict.limits) : verdict.limits[i].expires_at >= now
              /\ PromptDocument_from_token(chain).exc = "none"

\* C13 witness: an unexpected exception of the credit service was answered
\* 401 with the Bearer challenge.
C13_Witness ==
    /\ Answered
    /\ verdict.status = 401
    /\ verdict.detail = "credit service"
    /\ verdict.www_authenticate = "Bearer"

\* the lease of <<prefix, id>> is held: the latest register_model or refresh
\* of that id under that prefix has not been followed by an unregister_model
\* of it, and its TTL has not elapsed
LiveLease(prefix, model_id) ==
    /\ <<prefix, model_id>> \in DOMAIN latest
    /\ latest[<<prefix, model_id>>].event = "register"
    /\ now < latest[<<prefix, model_id>>].until

\* C14: while keep_alive runs against the reachable store the announced
\* model's lease never lapses, so get_model keeps returning its endpoint;
\* once keep_alive has been cancelled, lease_ttl seconds later at the latest
\* the entry is gone and get_model returns None
C14_LeaseHeldWhileKeptAlive ==
    /\ announcer.pc = "running" =>
          /\ Live(registry, Key(announcer.prefix, ModelId), now)
          /\ get_model(registry, ModelId, announcer.prefix, now) = Some(Endpoint(ModelId))
    /\ (announcer.stopped_at # None
          /\ now >= Val(announcer.stopped_at) + announcer.lease_ttl) =>
          get_model(registry, ModelId, announcer.prefix, now) = None

\* the lease was kept alive past its first TTL, keep_alive was cancelled
\* then, nothing unregistered the model, and a lookup made lease_ttl later
\* found nothing
C14_Witness ==
    /\ announcer.stopped_at # None
    /\ announcer.shutdown
    /\ ~announcer.unregistered
    /\ Val(announcer.stopped_at) > announcer.lease_ttl
    /\ now >= Val(announcer.stopped_at) + announcer.lease_ttl
    /\ found = [model_id |-> ModelId, prefix |-> announcer.prefix, value |-> None,
                at |-> now]

\* C15: after an orderly shutdown (the stop signal cancelled the service
\* task) the keep-alive loop had stopped before unregister_model ran, no
\* refresh followed the delete, and the model's registration key is absent
C15_KeyAbsentAfterShutdown ==
    (announcer.pc = "closed" /\ announcer.stopped_at # None) =>
        /\ announcer.unregistered => announcer.stopped_before_delete
        /\ announcer.refreshes_after_delete = 0
        /\ ~Live(registry, Key(announcer.prefix, ModelId), now)

\* C16 as stated: get_model(id) returns the registered endpoint exactly when
\* the latest event for that id is a registration or refresh whose TTL has
\* not elapsed, and None otherwise
C16_FoundIffLatestIsLiveRegistration ==
    \A prefix \in Prefixes, model_id \in LookupIds :
        get_model(registry, model_id, prefix, now) =
            IF LiveLease(prefix, model_id) THEN Some(Endpoint(model_id)) ELSE None

\* the registrations whose whole key is spelled by the looked-up id
BareKeyLeases(model_id) ==
    { c \in DOMAIN latest : Key(c[1], c[2]) = model_id /\ LiveLease(c[1], c[2]) }

\* C16: get_model(id, prefix) returns the endpoint registered under
\* prefix/id while that lease is held; otherwise the endpoint whose held
\* registration key is the id itself, if there is one; otherwise None (ids
\* never registered, unregistered, or expired)
C16_FoundIffLiveUnderPrefixOrAsKey ==
    \A prefix \in Prefixes, model_id \in LookupIds :
        get_model(registry, model_id, prefix, now) =
            IF LiveLease(prefix, model_id) THEN Some(Endpoint(model_id))
            ELSE IF BareKeyLeases(model_id) # {}
                 THEN Some(Endpoint((CHOOSE c \in BareKeyLeases(model_id) : TRUE)[2]))
                 ELSE None

\* a lookup of an id that was never registered returned the endpoint of the
\* model whose key it spells, and a lookup of the unregistered model found
\* nothing
C16_Witness ==
    /\ found.model_id = "/models/m1"
    /\ found.value = Some(Endpoint(ModelId))
    /\ found.at = now
    /\ latest[<<DefaultPrefix, "/models/m1">>].event = "none"

\* the call is over: handler and generator have ended, the gauge slot is
\* released, the background task has run
Finished ==
    /\ call.pc = "returned"
    /\ call.gen = "closed"
    /\ call.background # "added"

\* C17: after a follow-up round the returned usage counts each round once:
\* prompt_tokens = first.prompt + second.prompt, completion_tokens =
\* first.completion + second.completion, total_tokens their sum, and the
\* meter and the query log get the same totals
C17_EachRoundCountedOnce ==
    (call.tool_round /\ call.pc = "returned" /\ call.status = 200) =>
        LET first == Val(call.response_usage)
            second == Val(call.second_usage)
            usage == Val(call.model_response.usage)
        IN  /\ usage.prompt_tokens = first.prompt_tokens + second.prompt_tokens
            /\ usage.completion_tokens =
                   first.completion_tokens + second.completion_tokens
            /\ usage.total_tokens = usage.prompt_tokens + usage.completion_tokens
            /\ Val(call.meter).prompt_tokens = usage.prompt_tokens
            /\ Val(call.meter).completion_tokens = usage.completion_tokens
            /\ call.log_ctx.prompt_tokens = usage.prompt_tokens
            /\ call.log_ctx.completion_tokens = usage.completion_tokens

\* C18: a request that reached the handler has a query-log row exactly when
\* it succeeded or ended with a status >= 500 (timeouts and unexpected
\* exceptions included); a 4xx writes nothing; there is at most one row; a
\* 5xx row is there when the error response is returned
C18_RowIffSuccessOr5xx ==
    /\ Len(query_logs) <= 1
    /\ (call.pc = "returned" /\ call.status \in 400..499) => Len(query_logs) = 0
    /\ (call.pc = "returned" /\ call.status >= 500) =>
           /\ call.rows_at_answer = 1
           /\ Len(query_logs) = 1
    /\ (Finished /\ call.outcome \in {"success", "stream_failed"}) =>
           Len(query_logs) = 1
    /\ Len(query_logs) = 1 =>
           \/ call.outcome \in {"success", "stream_failed"}
           \/ call.status >= 500

\* C19: when the client of a streaming request disconnects after any number
\* of chunks, the upstream stream is closed, the gauge is decremented, and
\* the query log is committed with the usage seen so far, or with
\* error_code 500 if no usage chunk had arrived
C19_DisconnectedStreamCleansUp ==
    (Finished /\ call.outcome = "cancelled") =>
        /\ call.upstream = "closed"
        /\ concurrent[GaugeKey(call.req)] = 0
        /\ Len(query_logs) = 1
        /\ IF call.usage_seen
           THEN /\ query_logs[1].prompt_tokens = call.prompt_token_usage
                /\ query_logs[1].completion_tokens = call.completion_token_usage
           ELSE query_logs[1].error_code = 500

\* C20: the signature of every returned SignedChatCompletion verifies under
\* the service public key over the returned body with signature = "": no
\* field (usage, sources) changes after the signing step
C20_SignatureCoversReturnedBody ==
    (call.pc = "returned" /\ call.status = 200 /\ ~call.req.stream) =>
        verify_signature(PublicKey,
                         SignedChatCompletion_dump_json(
                             [call.model_response EXCEPT !.signature = ""]),
                         b64decode(call.model_response.signature))

\* a completion that went through a follow-up round, whose usage was
\* rewritten before it was signed, has been returned with its sources
C20_Witness ==
    /\ call.pc = "returned"
    /\ call.status = 200
    /\ call.tool_round
    /\ call.req.sources = 1
    /\ call.model_response.usage # call.second_usage
    /\ call.model_response.signature # ""


\* C21: a failure inside a non-critical enrichment stage (nilrag, planner,
\* query generation, search provider, page fetch) never fails the request,
\* and the request is dispatched with its original messages and no sources
C21_EnrichmentFailureKeepsRequest ==
    enrich.failed # {} =>
        /\ enrich.status = 0
        /\ enrich.pc = "dispatched" =>
             /\ enrich.messages = enrich.req.messages
             /\ enrich.sources = << >>

\* C22: a request with the docs token is authenticated without a call to the
\* credit service and no per-user bucket denies it
C22_DocsTokenNeverDenied ==
    docs.bearer = DocsToken =>
        /\ docs.credit_calls = 0
        /\ ~(docs.status = 429 /\ docs.by[2] = docs.auth_info.user_id)

\* C23: a non-streaming chat completion sent with the docs token to a
\* registered model, none of whose steps fails, ends in a 200 signed response
\* with no metering call and no query-log row
C23_DocsTokenCompletionSucceeds ==
    ( /\ call.bearer = DocsToken
      /\ ~call.req.stream
      /\ call.req.messages # 0
      /\ Resolves(call.req.model)
      /\ call.pc = "returned"
      /\ call.outcome \notin {"error", "timeout"} ) =>
        /\ call.status = 200
        /\ call.model_response.signature # ""
        /\ call.meter = None
        /\ query_logs = << >>

\* C24: GET /readyz answers 503 exactly when the registry has no endpoint or
\* state access fails, and 200 "ready" whenever an endpoint is registered
\* and state is accessible
C24_ReadyIffModelsAndState ==
    ready # NoProbe =>
        /\ ready.answer.status \in {200, 503}
        /\ ready.answer.status = 503 <=> (ready.models = 0 \/ ~ready.state_accessible)
        /\ ready.answer.status = 200 => ready.answer.body = "ready"

\* the documented order of the bucket scopes
ScopeRank(scope) ==
    CASE scope = "minute" -> 1
      [] scope = "hour" -> 2
      [] scope = "day" -> 3
      [] scope = "user" -> 4
      [] scope = "token" -> 5
      [] scope = "global" -> 6
      [] scope = "web_search" -> 7
      [] scope = "web_search_minute" -> 8
      [] scope = "web_search_hour" -> 9
      [] scope = "web_search_day" -> 10
      [] OTHER -> 11
\* the place of a signature in the envelope, whose proofs run leaf to root
ProofIndex(token, signature) ==
    CHOOSE i \in 1..Len(token.proofs) : token.proofs[i].signature = signature
ComesBefore(q, a, b) ==
    IF a.key[1] = "token" /\ b.key[1] = "token"
    THEN ProofIndex(Tokens[q.token], a.key[2]) > ProofIndex(Tokens[q.token], b.key[2])
    ELSE ScopeRank(a.key[1]) < ScopeRank(b.key[1])
InFixedOrder(q, plan) ==
    /\ \A i, j \in 1..Len(plan) : i < j => ComesBefore(q, plan[i], plan[j])
    /\ \A i \in 1..Len(plan) : ScopeRank(plan[i].key[1]) >= 6 => q.web_search
Touched(k) == k \notin DOMAIN kv \/ kv'[k] # kv[k]

\* C25: within one request the buckets are checked one after the other in
\* the order minute, hour, day, forever, the token buckets root to leaf, and
\* with web search the global RPS, web-search forever, minute, hour, day;
\* every store write is the check at the request's position; a deny writes
\* nothing, leaves the gauge alone and ends the request's checks
C25_FixedOrderStopAtFirstDeny ==
    [][\A r \in Reqs :
         /\ pc[r] # "idle" => InFixedOrder(req[r], PlanOf(r))
         /\ pos'[r] # pos[r] =>
              \/ pc[r] = "check" /\ pos'[r] = pos[r] + 1
              \/ pc[r] \in {"idle", "done"} /\ arrivals' = arrivals + 1
         /\ (now' = now /\ kv' # kv) =>
              \E o \in Reqs :
                 /\ pc[o] = "check"
                 /\ pos'[o] = pos[o] + 1
                 /\ \A k \in DOMAIN kv' : Touched(k) => k = PlanOf(o)[pos[o]].key
         /\ (resp'[r].status = 429 /\ resp[r].status # 429
               /\ resp'[r].by[1] # "concurrent") =>
              /\ kv' = kv
              /\ concurrent' = concurrent
              /\ resp'[r].by = PlanOf(r)[pos[r]].key
              /\ pos'[r] = pos[r]
              /\ gen'[r] = "none"
              /\ pc'[r] = "done"
         /\ (Denied(r) /\ resp[r].by[1] # "concurrent") =>
              \/ pos'[r] = pos[r] /\ gen'[r] = gen[r] /\ pc'[r] = pc[r]
              \/ arrivals' = arrivals + 1
    ]_vars

\* C25 witness: a web-search request was denied by its per-minute web-search
\* bucket after its earlier buckets had let it through
C25_Witness ==
    \E r \in Reqs :
        /\ Denied(r)
        /\ resp[r].by[1] = "web_search_minute"
        /\ pos[r] >= 3
        /\ gen[r] = "none"

\* a non-streaming call that was answered 200
Succeeded == call.pc = "returned" /\ call.status = 200 /\ ~call.req.stream
StageIndex(name) ==
    IF \E i \in 1..Len(call.stages) : call.stages[i] = name
    THEN CHOOSE i \in 1..Len(call.stages) : call.stages[i] = name
    ELSE 0
Precedes(a, b) == 0 < StageIndex(a) /\ StageIndex(a) < StageIndex(b)

C27_EveryErrorMarksUnhealthy ==
    ~keeper.absorbed

\* what holds of the keep_alive task in every state
KeeperSafe ==
    /\ keeper.pc = "stopped" => keeper.shutdown
    /\ (keeper.exhausted /\ keeper.pc # "except") => ~keeper.is_healthy
    /\ (keeper.is_healthy /\ keeper.errors = 0) => keeper.lease

\* C27 (amended): a transport error never ends the loop, which stops only
\* when cancelled; a refresh that fails on all its attempts marks the
\* instance unhealthy until a refresh succeeds, while an error followed by a
\* successful attempt of the same refresh is not reported; and once the store
\* stays reachable and the task runs, the lease is held and the instance
\* healthy from some point on
C27_LoopSurvivesAndRecovers ==
    /\ []KeeperSafe
    /\ <>[](keeper.store_up /\ keeper.pc # "stopped")
          => <>[](keeper.lease /\ keeper.is_healthy)

\* C27 witness: refresh attempts failed while the store was unreachable and
\* the lease ran out; the store is back and the lease is held again by a
\* healthy instance
C27_Witness ==
    /\ keeper.outages > 0
    /\ keeper.lapsed
    /\ keeper.store_up
    /\ keeper.lease
    /\ keeper.is_healthy
    /\ keeper.pc = "sleep"


(* ------------------------- C28: the tool loop -------------------------- *)
\* the tool messages answer the tool calls one for one
OneResultPerToolCall ==
    /\ Len(call.tool_messages) = Len(call.tool_calls)
    /\ \A i \in 1..Len(call.tool_calls) :
         LET tc == call.tool_calls[i]
             answers == { j \in 1..Len(call.tool_messages) :
                            call.tool_messages[j].tool_call_id = tc.id }
         IN  /\ answers = {i}
             /\ call.tool_messages[i].role = "tool"
             /\ tc.name # "execute_python" =>
                  call.tool_messages[i].content = NotImplemented(tc.name)

RECURSIVE LastUsage(_)
LastUsage(frames) ==
    IF frames = << >> THEN Usage(0, 0)
    ELSE IF frames[Len(frames)].usage # None THEN Val(frames[Len(frames)].usage)
    ELSE LastUsage(SubSeq(frames, 1, Len(frames) - 1))

ErrorFrames(frames) == { i \in 1..Len(frames) : frames[i].kind = "stream_failed" }

\* C29: a streamed request whose upstream call or stream raises has one row
\* with error_code 500, exactly one stream_failed frame, which is its last
\* frame, and no meter.set_response; one that completes has the meter set
\* and one row without error, both with the usage of the last usage-bearing
\* chunk
C29_StreamFailureAndCompletion ==
    call.req.stream =>
        /\ call.outcome = "stream_failed" =>
             /\ Len(query_logs) = 1
             /\ query_logs[1].error_code = 500
             /\ ErrorFrames(call.frames) = {Len(call.frames)}
             /\ call.meter = None
        /\ call.outcome = "success" =>
             /\ ErrorFrames(call.frames) = {}
             /\ call.meter # None
             /\ Val(call.meter).prompt_tokens = LastUsage(call.frames).prompt_tokens
             /\ Val(call.meter).completion_tokens
                  = LastUsage(call.frames).completion_tokens
             /\ Len(query_logs) = 1
             /\ query_logs[1].error_code = 0
             /\ query_logs[1].prompt_tokens = LastUsage(call.frames).prompt_tokens
             /\ query_logs[1].completion_tokens
                  = LastUsage(call.frames).completion_tokens
        /\ call.outcome \notin {"stream_failed", "success"} => ErrorFrames(call.frames) = {}

\* a stream that fails after it forwarded a usage-bearing chunk, the
\* generator closed
C29_Witness ==
    /\ call.req.stream
    /\ call.outcome = "stream_failed"
    /\ call.gen = "closed"
    /\ Len(call.frames) > 1
    /\ call.frames[1].usage # None


(* ------------------------ C30: the service key ------------------------- *)
\* C30: however the processes interleave, the key file is written at most
\* once, at most one process holds the lock, and all processes that return
\* hold the same private key, which is the one in the file; a key file that
\* was empty at the start is never changed and no process returns a key
C30_OneKeyForAll ==
    /\ keygen.writes <= 1
    /\ Cardinality(keygen.holders) <= 1
    /\ \A p \in Procs :
         keygen.pc[p] = "done" =>
             /\ keygen.private_key[p] = Some(keygen.file.bytes)
             /\ keygen.file.bytes # NoBytes
             /\ \A q \in Procs :
                  keygen.pc[q] = "done" => keygen.private_key[q] = keygen.private_key[p]
    /\ keygen.initial = KeyFile(TRUE, NoBytes) =>
         /\ keygen.file = keygen.initial
         /\ keygen.writes = 0
         /\ \A p \in Procs : keygen.pc[p] # "done" /\ keygen.private_key[p] = None

\* all processes returned after one of them wrote the key
C30_Witness ==
    /\ keygen.initial = AbsentFile
    /\ \A p \in Procs : keygen.pc[p] = "done"
    /\ keygen.writes = 1
    /\ \E w \in Procs : \A p \in Procs : keygen.private_key[p] = Some(FreshKey(w))


(* ---------------------- C31: the middleware order ---------------------- *)
\* the elements of a sequence that are in a set, in their order
RECURSIVE Restrict(_, _)
Restrict(seq, set) ==
    IF seq = << >> THEN << >>
    ELSE IF Head(seq) \in set THEN <<Head(seq)>> \o Restrict(Tail(seq), set)
    ELSE Restrict(Tail(seq), set)

IsPrefix(a, b) == Len(a) <= Len(b) /\ SubSeq(b, 1, Len(a)) = a

SecurityLayers ==
    {"SecurityHeadersMiddleware", "RequestMetricsMiddleware",
     "RequestTimeoutMiddleware", "RequestSizeLimitMiddleware"}

\* C31: a request enters security-headers, request-metrics, request-timeout
\* and request-size-limit in this order, and whatever leaves the stack, the
\* answers of the timeout and size-limit layers included, came out through
\* the security-headers and request-metrics layers
C31_SecurityHeadersOutermost ==
    /\ IsPrefix(Restrict(mw.entered, SecurityLayers),
                <<"SecurityHeadersMiddleware", "RequestMetricsMiddleware",
                  "RequestTimeoutMiddleware", "RequestSizeLimitMiddleware">>)
    /\ mw.phase = "left" =>
         {"SecurityHeadersMiddleware", "RequestMetricsMiddleware"}
            \subseteq { mw.crossed[i] : i \in 1..Len(mw.crossed) }


(* ---------------------- C32: the system message ------------------------ *)
\* text c occurs in text t
Occurs(c, t) ==
    \E i \in 1..(Len(t) + 1) :
        i + Len(c) - 1 <= Len(t) /\ SubSeq(t, i, i + Len(c) - 1) = c

\* the content holds text c: in its str, or in one of its text parts
Holds(content, c) ==
    \/ c = << >>
    \/ content.kind = "str" /\ Occurs(c, content.text)
    \/ /\ content.kind = "list"
       /\ \E i \in 1..Len(content.parts) :
            content.parts[i].type = "text" /\ Occurs(c, content.parts[i].text)

\* a system message came first in the list as it was
SystemFirst(messages) == messages # << >> /\ messages[1].role = "system"

\* the list keeps its messages in their order and grows by one message at
\* most, the one put first when no system message was first
OriginalKept ==
    IF SystemFirst(chat.original)
    THEN /\ Len(chat.messages) = Len(chat.original)
         /\ Tail(chat.messages) = Tail(chat.original)
    ELSE Tail(chat.messages) = chat.original

\* C32 as stated: after any calls messages[0] is a system message that holds
\* every supplied content as it was supplied, and the list kept its
\* messages and grew by one at most
C32_HoldsEverySuppliedContent ==
    chat.supplied # << >> =>
        /\ chat.messages[1].role = "system"
        /\ \A i \in 1..Len(chat.supplied) :
             Holds(chat.messages[1].content, chat.supplied[i])
        /\ OriginalKept

\* C32: after any calls messages[0] is a system message that holds every
\* supplied content without its leading and trailing whitespace, and the
\* content supplied last as it was; the list kept its messages in their
\* order and grew by one message at most, put first only when the list was
\* empty or began with another role
C32_HoldsEveryStrippedContent ==
    chat.supplied # << >> =>
        /\ chat.messages[1].role = "system"
        /\ \A i \in 1..Len(chat.supplied) :
             Holds(chat.messages[1].content, strip(chat.supplied[i]))
        /\ Holds(chat.messages[1].content, chat.supplied[Len(chat.supplied)])
        /\ OriginalKept

\* two contents merged into a system message that was first, the first of
\* them with whitespace at an end
C32_Witness ==
    /\ SystemFirst(chat.original)
    /\ Len(chat.supplied) = MaxEnsureCalls
    /\ strip(chat.supplied[1]) # chat.supplied[1]
    /\ strip(chat.supplied[1]) # << >>


(* ------------------- C33: increments are not rolled back ---------------- *)
\* r is answered by the dependency in this step: 429 or 400
RejectedNow(r) ==
    /\ pc[r] # "done"
    /\ pc'[r] = "done"
    /\ resp'[r].status \in {400, 429}

\* no step lowers the counter of a key that stays in the store
CountersKept == \A k \in (DOMAIN kv) \cap (DOMAIN kv') : kv'[k].val >= kv[k].val

\* C33: a step in which a request is denied by a bucket, rejected by the
\* gauge or answered 400 by a body extractor leaves every bucket as it is,
\* and no step ever lowers the counter of a bucket: what the request
\* incremented before stays incremented
C33_NoRollback ==
    [][ /\ CountersKept
        /\ \A r \in Reqs : RejectedNow(r) => kv' = kv ]_vars

\* a request denied by the hour bucket after it was counted in the minute
\* bucket, which now counts two requests though one was admitted
C33_Witness ==
    \E r \in Reqs :
        /\ pc[r] = "done"
        /\ DeniedBy(r, "hour")
        /\ pos[r] = 2
        /\ <<"minute", UserId>> \in DOMAIN kv
        /\ kv[<<"minute", UserId>>].val = 2
        /\ kv[<<"hour", UserId>>].val = 1


(* --------------- C34: what a gauge rejection is caused by --------------- *)
\* the requests admitted on gauge key k that have not run their decrement
Admitted(k) == { o \in Reqs : gen[o] = "suspended" /\ GaugeKey(req[o]) = k }

\* C34: whenever check_concurrent_and_increment rejects a request, the
\* requests admitted on its key and not yet completed are as many as the
\* limit; the increment of a request that is being rejected never makes
\* another request be rejected
C34_RejectedOnlyWhenFull ==
    [][ \A r \in Reqs :
          (pc[r] = "gauge" /\ pc'[r] = "gauge_undo")
              => Cardinality(Admitted(GaugeKey(req[r]))) = concurrent_limit ]_vars


(* ------------- C35: the first check on a key and its counter ------------ *)
\* C35: the check that creates a key is let through and sets its counter to
\* 1 whatever the limit, so a key whose limit is 0 or negative lets exactly
\* one call through for as long as it exists; the counter of an existing key
\* stays within 1..max(1, limit)
C35_OnePerWindowWhateverTheLimit ==
    \A k \in DOMAIN hist :
        /\ hist[k].grants >= 1
        /\ hist[k].limit <= 0 => hist[k].grants = 1
        /\ k \in DOMAIN kv
        /\ kv[k].val >= 1
        /\ kv[k].val <= (IF hist[k].limit > 1 THEN hist[k].limit ELSE 1)


(* ---------------- C36: the expiry of a bucket is set once --------------- *)
\* request r completes a check_bucket call in this step
Checked(r) ==
    /\ pc[r] = "check"
    /\ pos'[r] # pos[r] \/ resp'[r] # resp[r]

\* C36: the expiry of a bucket key is the one given when the key was
\* created: no step, and no later check on the key whether let through or
\* denied, changes the expiry of a key that is still readable, and a check
\* on a key that is absent or has expired creates it with counter 1 and a
\* window that starts at that check
C36_ExpiryFixedAtCreation ==
    [][ /\ \A k \in DOMAIN kv :
              Live(kv, k, now') => (k \in DOMAIN kv' /\ kv'[k].exp = kv[k].exp)
        /\ \A r \in Reqs :
              Checked(r) =>
                LET c == PlanOf(r)[pos[r]]
                    milliseconds == IF c.tok > 0 THEN ms[r] ELSE c.milliseconds
                IN  ~Live(kv, c.key, now) =>
                        kv'[c.key] =
                            [val |-> 1,
                             exp |-> IF milliseconds > 0 THEN now + milliseconds
                                     ELSE NoExpiry] ]_vars

\* C36 witness: after the clock moved on, a key with an expiry has been
\* incremented by a later check and a key with an expiry has denied one
C36_Witness ==
    \E k \in DOMAIN kv : \E j \in DOMAIN kv : \E r \in Reqs :
        /\ kv[k].exp # NoExpiry /\ kv[k].val >= 2
        /\ kv[k].exp < now + hist[k].px
        /\ kv[j].exp # NoExpiry
        /\ Denied(r) /\ resp[r].by = j
        /\ Val(resp[r].retry_after) < hist[j].px


(* ------------------- C37: the expiry of a token bucket ------------------ *)
\* expires_at of the proof that carries the signature
ExpiresAt(signature) ==
    CHOOSE e \in { Val(Tokens[i].proofs[j].expires_at) :
                     <<i, j>> \in { x \in (DOMAIN Tokens) \X (1..2) :
                                      /\ x[2] \in DOMAIN Tokens[x[1]].proofs
                                      /\ Tokens[x[1]].proofs[x[2]].signature = signature } } :
        TRUE

\* C37: every token:{signature} key in the store has an expiry, and the
\* expiry is no later than the expires_at of its proof
C37_TokenKeyExpiresWithProof ==
    \A k \in DOMAIN kv :
        k[1] = "token" =>
            /\ kv[k].exp # NoExpiry
            /\ kv[k].exp <= ExpiresAt(k[2])


(* ------------ keep_alive as a background task of its caller ------------- *)
\* a refresh that only pushes the expiry of the key back (EXPIRE)
_refresh_ttl_ExpireOnly(store, key, lease_ttl, model_json, t) ==
    IF Live(store, key, t) THEN [store EXCEPT ![key].exp = t + lease_ttl] ELSE store

\* _refresh_ttl: client.setex(key, self.lease_ttl, model_json)
_refresh_ttl(store, key, lease_ttl, model_json, t) ==
    setex(store, key, lease_ttl, model_json, t)

\* wait_exponential(multiplier=1, min=4, max=10): seconds to the next attempt
RetryWait == 4

\* the announcer of discovery.main, which starts keep_alive with
\* asyncio.create_task and unregisters without cancelling it, against a
\* store that can be out of reach
LeaseAnnouncer(lease_ttl) ==
    [ prefix |-> DefaultPrefix, lease_ttl |-> lease_ttl, pc |-> "start", key |-> None,
      wake |-> 0, shutdown |-> FALSE, stopped_at |-> None, unregistered |-> FALSE,
      stopped_before_delete |-> FALSE, refreshes_after_delete |-> 0,
      store_up |-> TRUE, outages |-> 0, lapsed |-> FALSE, recreated |-> FALSE ]

LeaseKey == Key(DefaultPrefix, ModelId)

\* the store gets out of reach of the announcer, and back
Unreachable ==
    /\ announcer.pc = "running"
    /\ announcer.store_up
    /\ announcer.outages < MaxOutages
    /\ announcer' = [announcer EXCEPT !.store_up = FALSE, !.outages = @ + 1]
    /\ UNCHANGED <<now, registry, found, latest>>
    /\ DiscoveryFrame
Reachable ==
    /\ ~announcer.store_up
    /\ announcer' = [announcer EXCEPT !.store_up = TRUE]
    /\ UNCHANGED <<now, registry, found, latest>>
    /\ DiscoveryFrame

\* register_model, then create_task(keep_alive(key, model_endpoint))
LeaseRegister ==
    /\ announcer.store_up
    /\ Register

\* one turn of the keep_alive loop with the store in reach: _refresh_ttl
\* succeeds and the sleep is started
LeaseRefresh ==
    /\ announcer.pc = "running"
    /\ ~announcer.shutdown
    /\ announcer.store_up
    /\ now >= announcer.wake
    /\ registry' = _refresh_ttl(registry, Val(announcer.key), announcer.lease_ttl,
                                model_dump_json(Endpoint(ModelId)), now)
    /\ announcer' = [announcer EXCEPT
                        !.wake = now + keep_alive_sleep(announcer.lease_ttl),
                        !.refreshes_after_delete =
                            IF announcer.unregistered THEN @ + 1 ELSE @,
                        !.recreated = @ \/ announcer.lapsed]
    /\ latest' = [latest EXCEPT ![<<announcer.prefix, ModelId>>] = Registration(now)]
    /\ UNCHANGED <<now, found>>
    /\ DiscoveryFrame

\* an attempt of _refresh_ttl with the store out of reach: SETEX raises, the
\* retry (and, after the third failure, the except branch of the loop) waits
\* and tries again
RefreshFails ==
    /\ announcer.pc = "running"
    /\ ~announcer.shutdown
    /\ ~announcer.store_up
    /\ now >= announcer.wake
    /\ announcer' = [announcer EXCEPT !.wake = now + RetryWait]
    /\ UNCHANGED <<now, registry, found, latest>>
    /\ DiscoveryFrame

\* a second passes (no second passes while an attempt is due); the store
\* drops the keys that expire
LeaseTick ==
    /\ now < MaxClock
    /\ ~(announcer.pc = "running" /\ now >= announcer.wake)
    /\ now' = now + 1
    /\ registry' = Purge(registry, now + 1)
    /\ announcer' = [announcer EXCEPT
                        !.lapsed = @ \/ (/\ announcer.pc = "running"
                                         /\ ~announcer.unregistered
                                         /\ Live(registry, LeaseKey, now)
                                         /\ ~Live(registry, LeaseKey, now + 1))]
    /\ UNCHANGED <<found, latest>>
    /\ DiscoveryFrame

\* discovery.main: unregister_model(model_endpoint.metadata.id) while the
\* keep_alive task has not been cancelled
UnregisterWhileRunning ==
    /\ announcer.pc = "running"
    /\ announcer.store_up
    /\ ~announcer.unregistered
    /\ registry' = delete(registry, LeaseKey)
    /\ latest' = [latest EXCEPT ![<<DefaultPrefix, ModelId>>] =
                     [event |-> "unregister", until |-> now]]
    /\ announcer' = [announcer EXCEPT !.unregistered = TRUE,
                                      !.stopped_before_delete = announcer.shutdown]
    /\ UNCHANGED <<now, found>>
    /\ DiscoveryFrame

\* discovery.main returns: asyncio.run cancels the task that is left
Exit ==
    /\ announcer.pc = "running"
    /\ announcer.unregistered
    /\ announcer' = [announcer EXCEPT !.pc = "closed", !.shutdown = TRUE,
                                      !.stopped_at = Some(now)]
    /\ UNCHANGED <<now, registry, found, latest>>
    /\ DiscoveryFrame

\* run_service: the stop signal cancels the task, then the finally block
\* unregisters
LeaseStop ==
    /\ ~announcer.unregistered
    /\ Stop
LeaseUnregister ==
    /\ announcer.store_up
    /\ Unregister

LeaseInit ==
    /\ now = 0
    /\ Quiet({Scenario(Unlimited, 1, {Plain})})
    /\ ChainIdle
    /\ registry = EmptyStore
    /\ \E lease_ttl \in LeaseTtls : announcer = LeaseAnnouncer(lease_ttl)
    /\ found = NoLookup
    /\ latest = [c \in Prefixes \X LookupIds |-> NoEvent]
    /\ CallIdle
    /\ SideIdle

LeaseNext ==
    \/ Unreachable
    \/ Reachable
    \/ LeaseRegister
    \/ LeaseRefresh
    \/ RefreshFails
    \/ LeaseTick
    \/ UnregisterWhileRunning
    \/ Exit
    \/ LeaseStop
    \/ LeaseUnregister

SpecLease == LeaseInit /\ [][LeaseNext]_vars

(* ------------------ C38: what a refresh writes back --------------------- *)
\* C38: a refresh writes the endpoint with a whole lease, whatever became of
\* the key before: the key is readable, with the endpoint as its value,
\* exactly while the latest register, refresh or unregister of it is a
\* register or refresh whose lease has not run out, also after the key had
\* expired or been deleted; and a key that is readable after unregister_model
\* has been refreshed by a loop that had not stopped before the delete
C38_RefreshWritesTheRegistration ==
    /\ Live(registry, LeaseKey, now) <=> LiveLease(DefaultPrefix, ModelId)
    /\ get_model(registry, ModelId, DefaultPrefix, now) =
          IF LiveLease(DefaultPrefix, ModelId) THEN Some(Endpoint(ModelId)) ELSE None
    /\ (announcer.unregistered /\ Live(registry, LeaseKey, now)) =>
          /\ ~announcer.stopped_before_delete
          /\ announcer.refreshes_after_delete > 0

\* C38 witness: the key expired while the store was out of reach and a
\* refresh re-created it; unregister_model then deleted it while the loop was
\* running, and the next refresh wrote it again
C38_Witness ==
    /\ announcer.outages > 0
    /\ announcer.recreated
    /\ announcer.unregistered
    /\ ~announcer.stopped_before_delete
    /\ announcer.refreshes_after_delete > 0
    /\ Fetch(registry, LeaseKey, now) = Some(model_dump_json(Endpoint(ModelId)))


(* ----------------- C39: a streamed request and its tools ---------------- *)
\* the frames of the forwarded chunks, in the order they were yielded
ChunkFrames(frames) == SelectSeq(frames, LAMBDA f : f.kind = "chunk")

\* the generator has requested the streamed completion
GeneratorStarted == call.upstream # "none"

\* C39: a request with stream = true makes one completion call, when its
\* generator starts, and none before or after; no tool call is executed, no
\* tool message is built and no follow-up completion is requested; every
\* chunk of the stream is yielded with the tool calls it carries
C39_StreamingSkipsToolLoop ==
    call.req.stream =>
        /\ call.completions = (IF GeneratorStarted THEN 1 ELSE 0)
        /\ call.followups = 0
        /\ ~call.tool_round
        /\ call.followup = None
        /\ call.executed = << >>
        /\ call.tool_messages = << >>
        /\ ChunkFrames(call.frames) =
              [i \in 1..Len(call.streamed) |->
                  Frame("chunk", call.streamed[i].usage, call.streamed[i].tool_calls)]

\* C39 witness: a streamed request has ended well after forwarding a chunk
\* whose delta calls execute_python
C39_Witness ==
    /\ call.req.stream
    /\ call.pc = "returned"
    /\ call.outcome = "success"
    /\ \E i \in 1..Len(call.frames) :
         /\ call.frames[i].kind = "chunk"
         /\ \E j \in 1..Len(call.frames[i].tool_calls) :
              call.frames[i].tool_calls[j].name = "execute_python"

====
